---------------------------- MODULE Spec2Model ----------------------------
(***************************************************************************)
(* Model of the Neuron pull-request reviewer (src/index.js and            *)
(* src/baseline.js) and of the earlier server in src/unnamed/part_001.     *)
(*                                                                         *)
(* A string is a sequence of one-character strings, so that concatenation, *)
(* startsWith, includes and path resolution are computed on characters as  *)
(* the JavaScript does.  Long literals of the source are abbreviated; the  *)
(* abbreviation is given where each is defined.                            *)
(***************************************************************************)
EXTENDS Naturals, Sequences, FiniteSets

VARIABLES
    \* ---- plan application on one workspace (applyPlan) ----
    ap_fs,        \* the workspace's files: absolute path -> file
    ap_tests,     \* the plan's test artifacts
    ap_round,     \* how many times the plan has been applied
    ap_written,   \* tests_written of each application
    ap_targets,   \* every absolute path fs.writeFileSync was called on
    ap_raised,    \* whether each application ended in an exception
    \* ---- plan acquisition (getLLMPlanWithFallback) ----
    acq_impl,     \* which server's getLLMPlanWithFallback runs
    acq_pc,       \* "start", "wait_structured", "wait_retry", "wait_fallback", "done"
    acq_requests, \* the provider requests issued so far, in order
    acq_replies,  \* the provider's answer to each request, in order
    acq_plan,     \* <<plan>> once a plan is returned, <<>> for null
    acq_diag,     \* the diag returned: code and detail
    acq_raised,   \* TRUE if an exception left getLLMPlanWithFallback
    \* ---- the webhook runs on one pull request branch ----
    ALWAYS_COMMENT,  \* process configuration (NEURON_ALWAYS_COMMENT)
    DEBUG_COMMENTS,  \* process configuration (NEURON_DEBUG_COMMENTS)
    br_files,     \* the head branch: repository path -> file
    run,          \* the state of each webhook handler invocation
    deliveries,   \* how many deliveries have started a run
    pushes,       \* how many times the developer has pushed an edit
    surfaced,     \* comments posted with their baseline committed, and whose
                  \* file has not changed on the branch since
    workdirs,     \* the deliveries whose temporary directory is on the disk
    \* ---- the plan validator on one candidate (validatePlan) ----
    val_plan,     \* the parsed object handed to validatePlan
    val_errors,   \* <<validatePlan.errors>> once it has been called
    \* ---- the baseline store under a sequence of recordComments calls ----
    st_fs,        \* the workspace's files
    st_store,     \* baseline.suggestions
    st_before,    \* baseline.suggestions before the last call
    st_comments,  \* the comments handed to the last call
    st_changed    \* the value each call returned

ap_vars == <<ap_fs, ap_tests, ap_round, ap_written, ap_targets, ap_raised>>

acq_vars == <<acq_impl, acq_pc, acq_requests, acq_replies, acq_plan, acq_diag,
              acq_raised>>

run_vars == <<ALWAYS_COMMENT, DEBUG_COMMENTS, br_files, run, deliveries, pushes,
              surfaced, workdirs>>

val_vars == <<val_plan, val_errors>>

st_vars == <<st_fs, st_store, st_before, st_comments, st_changed>>

vars == <<ap_vars, acq_vars, run_vars, val_vars, st_vars>>

(***************************************************************************)
(* Strings and paths (node:path, POSIX)                                    *)
(***************************************************************************)

\* String.prototype.startsWith
startsWith(s, p) == Len(p) <= Len(s) /\ SubSeq(s, 1, Len(p)) = p

\* String.prototype.includes
includes(s, sub) ==
    \E i \in 0..(Len(s) - Len(sub)) : SubSeq(s, i + 1, i + Len(sub)) = sub

\* the segments of a path string, split at "/"
RECURSIVE SplitFrom(_, _, _)
SplitFrom(s, i, cur) ==
    IF i > Len(s) THEN <<cur>>
    ELSE IF s[i] = "/" THEN <<cur>> \o SplitFrom(s, i + 1, <<>>)
    ELSE SplitFrom(s, i + 1, Append(cur, s[i]))

Segments(s) == SplitFrom(s, 1, <<>>)

\* normalisation of an absolute path: "" and "." vanish, ".." pops a segment
RECURSIVE NormalizeSegs(_, _)
NormalizeSegs(segs, acc) ==
    IF segs = <<>> THEN acc
    ELSE LET s == Head(segs) IN
         IF s = <<>> \/ s = <<".">> THEN NormalizeSegs(Tail(segs), acc)
         ELSE IF s = <<".", ".">>
              THEN NormalizeSegs(Tail(segs),
                       IF acc = <<>> THEN acc ELSE SubSeq(acc, 1, Len(acc) - 1))
              ELSE NormalizeSegs(Tail(segs), Append(acc, s))

RECURSIVE PathStr(_)
PathStr(segs) ==
    IF segs = <<>> THEN <<>> ELSE <<"/">> \o Head(segs) \o PathStr(Tail(segs))

\* the string of an absolute path given by its segments ("/" for the root)
AbsStr(segs) == IF segs = <<>> THEN <<"/">> ELSE PathStr(segs)

\* path.resolve(root, rel): an absolute rel replaces root
path_resolve(root, rel) ==
    IF rel # <<>> /\ rel[1] = "/"
    THEN AbsStr(NormalizeSegs(Segments(rel), <<>>))
    ELSE AbsStr(NormalizeSegs(Segments(root) \o Segments(rel), <<>>))

\* path.join(root, rel): rel is appended even when it starts with "/"
path_join(root, rel) ==
    AbsStr(NormalizeSegs(Segments(root) \o Segments(rel), <<>>))

RECURSIVE CommonLen(_, _)
CommonLen(a, b) ==
    IF a = <<>> \/ b = <<>> \/ Head(a) # Head(b) THEN 0
    ELSE 1 + CommonLen(Tail(a), Tail(b))

RECURSIVE RelStr(_, _)
RelStr(ups, segs) ==
    IF ups > 0
    THEN <<".", ".">> \o (IF ups > 1 \/ segs # <<>> THEN <<"/">> ELSE <<>>)
         \o RelStr(ups - 1, segs)
    ELSE IF segs = <<>> THEN <<>>
    ELSE Head(segs) \o (IF Len(segs) > 1 THEN <<"/">> ELSE <<>>)
         \o RelStr(0, Tail(segs))

\* path.relative(from, to) of two absolute paths
path_relative(from, to) ==
    LET f == NormalizeSegs(Segments(from), <<>>)
        t == NormalizeSegs(Segments(to), <<>>)
        n == CommonLen(f, t)
    IN  RelStr(Len(f) - n, SubSeq(t, n + 1, Len(t)))

\* whether the absolute path abs denotes root or something below it
InsideRoot(root, abs) ==
    LET r == NormalizeSegs(Segments(root), <<>>)
        a == NormalizeSegs(Segments(abs), <<>>)
    IN  Len(r) <= Len(a) /\ SubSeq(a, 1, Len(r)) = r

(***************************************************************************)
(* Files.  A file is a text or the JSON document writeBaseline wrote.      *)
(***************************************************************************)

TextFile(t) == [kind |-> "text", text |-> t, json |-> <<>>]
JsonFile(suggestions) == [kind |-> "json", text |-> <<>>, json |-> suggestions]

\* a directory of the workspace
DirFile == [kind |-> "dir", text |-> <<>>, json |-> <<>>]

\* a JSON document whose `suggestions` is not an array, such as {}
NO_ARRAY_FILE == [kind |-> "json_no_array", text |-> <<>>, json |-> <<>>]

\* the element null of a `suggestions` array
NULL_ENTRY == [null |-> TRUE]
IsNull(e) == "null" \in DOMAIN e

\* fs.readFileSync(p, "utf8") of an existing file.  A serialised baseline
\* document read as text is the one character "J": the applier only asks
\* whether it holds a marker or the proposed content, and it holds neither.
readText(f) == IF f.kind = "text" THEN f.text ELSE <<"J">>

\* the workspace of a run: mkdtemp under os.tmpdir(), abbreviated "/w"
WORKDIR == <<"/", "w">>

\* "__tests__/neuron.generated.test.js", abbreviated "g/n"
DEFAULT_JS_PATH == <<"g", "/", "n">>
\* "src/test/java/NeuronGeneratedTest.java", abbreviated "j/N"
DEFAULT_JAVA_PATH == <<"j", "/", "N">>

(***************************************************************************)
(* Plan application                                                        *)
(***************************************************************************)

ensureSafePath(root, rel, fallback) ==
    LET abs == path_resolve(root, rel) IN
    IF ~startsWith(abs, path_resolve(root, <<>>))
    THEN path_join(root, fallback)
    ELSE abs

\* "// neuron:generated checksum=<sha256 of content>\n" is the character "M":
\* the digest is a function of the content that follows and is never read back
withChecksum(content) == <<"M">> \o content \o <<"\n">>

alreadyHasChecksum(content) == \E i \in 1..Len(content) : content[i] = "M"

\* an iteration that lists the path of an artifact it skipped
applyTest_listsSkipped(workdir, st, t) ==
    LET defaultPath == IF t.language = "java" THEN DEFAULT_JAVA_PATH
                       ELSE DEFAULT_JS_PATH
        target   == ensureSafePath(workdir, t.path, defaultPath)
        exists   == target \in DOMAIN st.fs
        existing == IF exists /\ st.fs[target].kind # "dir"
                    THEN readText(st.fs[target]) ELSE <<>>
        next     == IF t.mode = "append_or_create" /\ existing # <<>>
                    THEN existing \o <<"\n", "\n">> \o t.content
                    ELSE t.content
        final    == withChecksum(next)
    IN  IF st.raised THEN st
        ELSE IF exists /\ st.fs[target].kind = "dir"
        THEN [st EXCEPT !.raised = TRUE]
        ELSE IF exists /\ alreadyHasChecksum(existing) /\ includes(existing, t.content)
        THEN [st EXCEPT !.tests_written = Append(@, path_relative(workdir, target))]
        ELSE [raised |-> FALSE,
              fs |-> [p \in DOMAIN st.fs \cup {target} |->
                         IF p = target THEN TextFile(final) ELSE st.fs[p]],
              tests_written |-> Append(st.tests_written, path_relative(workdir, target)),
              targets |-> st.targets \cup {target}]

\* one iteration of the loop over plan.tests.  Nothing in the loop catches:
\* fs.readFileSync of a target that is a directory raises (EISDIR) and ends
\* applyPlan, st.raised, with the iterations before it done.
applyTest(workdir, st, t) ==
    LET defaultPath == IF t.language = "java" THEN DEFAULT_JAVA_PATH
                       ELSE DEFAULT_JS_PATH
        target   == ensureSafePath(workdir, t.path, defaultPath)
        exists   == target \in DOMAIN st.fs
        existing == IF exists /\ st.fs[target].kind # "dir"
                    THEN readText(st.fs[target]) ELSE <<>>
        next     == IF t.mode = "append_or_create" /\ existing # <<>>
                    THEN existing \o <<"\n", "\n">> \o t.content
                    ELSE t.content
        final    == withChecksum(next)
    IN  IF st.raised THEN st
        ELSE IF exists /\ st.fs[target].kind = "dir"
        THEN [st EXCEPT !.raised = TRUE]
        ELSE IF exists /\ alreadyHasChecksum(existing) /\ includes(existing, t.content)
        THEN st
        ELSE [raised |-> FALSE,
              fs |-> [p \in DOMAIN st.fs \cup {target} |->
                         IF p = target THEN TextFile(final) ELSE st.fs[p]],
              tests_written |-> Append(st.tests_written, path_relative(workdir, target)),
              targets |-> st.targets \cup {target}]

RECURSIVE applyTests(_, _, _)
applyTests(workdir, st, tests) ==
    IF tests = <<>> THEN st
    ELSE applyTests(workdir, applyTest(workdir, st, Head(tests)), Tail(tests))

applyPlan(workdir, fs, tests) ==
    applyTests(workdir, [raised |-> FALSE, fs |-> fs, tests_written |-> <<>>,
                         targets |-> {}], tests)

(***************************************************************************)
(* Provider responses.  A response text is a sequence of tokens:           *)
(*   "{" "}"   braces          "x"  prose          "F"  a ``` fence        *)
(*   "n"       the JSON literal null                                       *)
(*   "c"  "comments":[]        "C"  "comments":[<a valid comment>]         *)
(*   "B"  "comments":[{}]      "t"  "tests":[]                             *)
(*   "T"  "tests":[<a valid test artifact>]                                *)
(* (the commas between members are part of the member tokens).             *)
(***************************************************************************)

SAMPLE_COMMENT ==
    [path |-> <<"a">>, line |-> 1, severity |-> "HIGH", title |-> <<"X">>,
     body |-> <<"b">>]

SAMPLE_TEST ==
    [language |-> "javascript", framework |-> "jest", path |-> <<"t">>,
     mode |-> "append_or_create", content |-> <<"p">>]

\* {} : an object with no keys
EmptyObject == [k \in {} |-> <<>>]

CommentMembers == {"c", "C", "B"}
TestMembers == {"t", "T"}
MemberTokens == CommentMembers \cup TestMembers

MemberValue(tok) ==
    CASE tok = "c" -> <<>>
      [] tok = "C" -> <<SAMPLE_COMMENT>>
      [] tok = "B" -> <<EmptyObject>>
      [] tok = "t" -> <<>>
      [] tok = "T" -> <<SAMPLE_TEST>>

\* the last member of a kind wins, as for duplicate keys in JSON.parse
LastOf(ms, kinds) ==
    LET idx == {i \in 1..Len(ms) : ms[i] \in kinds} IN
    CHOOSE i \in idx : \A j \in idx : j <= i

ObjectOf(ms) ==
    LET keys == (IF \E i \in 1..Len(ms) : ms[i] \in CommentMembers
                 THEN {"comments"} ELSE {})
                \cup (IF \E i \in 1..Len(ms) : ms[i] \in TestMembers
                      THEN {"tests"} ELSE {})
    IN  [k \in keys |->
            IF k = "comments" THEN MemberValue(ms[LastOf(ms, CommentMembers)])
            ELSE MemberValue(ms[LastOf(ms, TestMembers)])]

\* JSON.parse: ok = FALSE stands for the SyntaxError it throws
JSON_parse(text) ==
    IF text = <<"n">>
    THEN [ok |-> TRUE, null |-> TRUE, obj |-> EmptyObject]
    ELSE IF /\ Len(text) >= 2
            /\ text[1] = "{"
            /\ text[Len(text)] = "}"
            /\ \A i \in 2..(Len(text) - 1) : text[i] \in MemberTokens
         THEN [ok |-> TRUE, null |-> FALSE,
               obj |-> ObjectOf(SubSeq(text, 2, Len(text) - 1))]
         ELSE [ok |-> FALSE, null |-> FALSE, obj |-> EmptyObject]

(***************************************************************************)
(* The plan schema and its validator (ajv)                                 *)
(***************************************************************************)

\* the two servers of the repository that acquire a plan
INDEX_JS == "src/index.js"
PART_001 == "src/unnamed/part_001"
Impls == {INDEX_JS, PART_001}

\* JSON_SCHEMA: maxItems, maxLength
COMMENTS_MAX_ITEMS == 3
TESTS_MAX_ITEMS == 2
COMMENTS_MAX_ITEMS_001 == 5
TESTS_MAX_ITEMS_001 == 3
TITLE_MAX_LENGTH == 120
BODY_MAX_LENGTH == 2000

Severities == {"LOW", "MEDIUM", "HIGH", "CRITICAL"}
Modes == {"create", "append_or_create", "replace"}

JSON_SCHEMA(impl) ==
    IF impl = INDEX_JS
    THEN [comments_maxItems |-> COMMENTS_MAX_ITEMS, tests_maxItems |-> TESTS_MAX_ITEMS]
    ELSE [comments_maxItems |-> COMMENTS_MAX_ITEMS_001,
          tests_maxItems |-> TESTS_MAX_ITEMS_001]

\* a schema for comments without `minimum`
CommentErrors_noMinimum(c) ==
    {"required" : k \in {"path", "line", "severity", "title", "body"} \ DOMAIN c}
    \cup (IF "severity" \in DOMAIN c /\ c.severity \notin Severities
          THEN {"enum"} ELSE {})

CommentErrors(c) ==
    {"required" : k \in {"path", "line", "severity", "title", "body"} \ DOMAIN c}
    \cup (IF "line" \in DOMAIN c /\ c.line < 1 THEN {"minimum"} ELSE {})
    \cup (IF "severity" \in DOMAIN c /\ c.severity \notin Severities
          THEN {"enum"} ELSE {})
    \cup (IF "title" \in DOMAIN c /\ Len(c.title) > TITLE_MAX_LENGTH
          THEN {"maxLength"} ELSE {})
    \cup (IF "body" \in DOMAIN c /\ Len(c.body) > BODY_MAX_LENGTH
          THEN {"maxLength"} ELSE {})

TestErrors(t) ==
    {"required" : k \in {"language", "framework", "path", "mode", "content"} \ DOMAIN t}
    \cup (IF "mode" \in DOMAIN t /\ t.mode \notin Modes THEN {"enum"} ELSE {})
    \cup (IF "content" \in DOMAIN t /\ Len(t.content) < 1 THEN {"minLength"} ELSE {})

\* validatePlan.errors after validatePlan(v); v is a parsed JSON value
validatePlan_errors(impl, v) ==
    IF v.null THEN {"type"}
    ELSE LET o == v.obj IN
         {"required" : k \in {"comments", "tests"} \ DOMAIN o}
         \cup (IF "comments" \in DOMAIN o
               THEN (IF Len(o.comments) > JSON_SCHEMA(impl).comments_maxItems
                     THEN {"maxItems"} ELSE {})
                    \cup UNION {CommentErrors(o.comments[i]) : i \in 1..Len(o.comments)}
               ELSE {})
         \cup (IF "tests" \in DOMAIN o
               THEN (IF Len(o.tests) > JSON_SCHEMA(impl).tests_maxItems
                     THEN {"maxItems"} ELSE {})
                    \cup UNION {TestErrors(o.tests[i]) : i \in 1..Len(o.tests)}
               ELSE {})

validatePlan(impl, v) == validatePlan_errors(impl, v) = {}

\* part_001 only: missing top-level keys become empty arrays
ensurePlanShape(v) ==
    IF v.null
    THEN [ok |-> TRUE, null |-> FALSE, obj |-> [comments |-> <<>>, tests |-> <<>>]]
    ELSE [ok |-> TRUE, null |-> FALSE,
          obj |-> [k \in DOMAIN v.obj \cup {"comments", "tests"} |->
                     IF k \in DOMAIN v.obj THEN v.obj[k] ELSE <<>>]]

\* what each server does to a parsed response before validating it
Shaped(impl, v) == IF impl = PART_001 THEN ensurePlanShape(v) ELSE v

(***************************************************************************)
(* extractFirstJsonObject                                                  *)
(***************************************************************************)

\* String.prototype.indexOf(c, from) on tokens, 1-based; 0 when absent
IndexOf(s, c, from) ==
    LET idx == {i \in from..Len(s) : s[i] = c} IN
    IF idx = {} THEN 0 ELSE CHOOSE i \in idx : \A j \in idx : i <= j

\* String.prototype.lastIndexOf(c), 1-based; 0 when absent
LastIndexOf(s, c) ==
    LET idx == {i \in 1..Len(s) : s[i] = c} IN
    IF idx = {} THEN 0 ELSE CHOOSE i \in idx : \A j \in idx : j <= i

BraceSpan(s) ==
    LET b == IndexOf(s, "{", 1)
        e == LastIndexOf(s, "}")
    IN  IF b # 0 /\ e # 0 /\ e > b THEN SubSeq(s, b, e) ELSE <<>>

extractFirstJsonObject(impl, text) ==
    LET fence    == IndexOf(text, "F", 1)
        fenceEnd == IF fence = 0 THEN 0 ELSE IndexOf(text, "F", fence + 1)
        inside   == IF fenceEnd # 0 THEN SubSeq(text, fence + 1, fenceEnd - 1)
                    ELSE IF impl = INDEX_JS THEN text
                    ELSE SubSeq(text, fence + 1, Len(text))
    IN  IF fence # 0 /\ BraceSpan(inside) # <<>> THEN BraceSpan(inside)
        ELSE BraceSpan(text)

(***************************************************************************)
(* getLLMPlanWithFallback                                                  *)
(***************************************************************************)

\* a parsed JSON value that is the object o
AsValue(o) == [ok |-> TRUE, null |-> FALSE, obj |-> o]

NoDiag == [code |-> "", errors |-> {}, detail |-> <<>>]

\* what a try block ends in: a return statement, an exception, or (part_001)
\* the corrective request it goes on to send
Return(plan, code, errors, detail) ==
    [kind |-> "return", plan |-> plan,
     diag |-> [code |-> code, errors |-> errors, detail |-> detail], msg |-> <<>>]
Throw(msg) == [kind |-> "throw", plan |-> <<>>, diag |-> NoDiag, msg |-> msg]
SendRetry == [kind |-> "retry", plan |-> <<>>, diag |-> NoDiag, msg |-> <<>>]

\* the message of the SyntaxError of JSON.parse
SYNTAX_ERROR == <<"unexpected", "token">>

\* regex.test(msg) for an alternation of words
Matches(msg, words) == \E i \in 1..Len(msg) : msg[i] \in words

\* lines 459-471 / part_001 419-430: the structured attempt, up to its return,
\* its exception or the corrective request
structuredAttempt(impl, resp) ==
    IF resp.throws THEN Throw(resp.msg)
    ELSE LET parsed == JSON_parse(resp.text) IN
         IF ~parsed.ok THEN Throw(SYNTAX_ERROR)
         ELSE LET plan == Shaped(impl, parsed) IN
              IF validatePlan(impl, plan)
              THEN Return(<<plan.obj>>, "OK_JSON_MODE", {}, <<>>)
              ELSE IF impl = PART_001 THEN SendRetry
              ELSE Return(<<>>, "SCHEMA_INVALID", validatePlan_errors(impl, plan), <<>>)

\* part_001 lines 441-447: the answer to the corrective request
retryAttempt(resp) ==
    IF resp.throws THEN Throw(resp.msg)
    ELSE LET parsed == JSON_parse(resp.text) IN
         IF ~parsed.ok THEN Throw(SYNTAX_ERROR)
         ELSE LET plan == ensurePlanShape(parsed) IN
              IF ~validatePlan(PART_001, plan)
              THEN Return(<<>>, "SCHEMA_INVALID", validatePlan_errors(PART_001, plan), <<>>)
              ELSE Return(<<plan.obj>>, "OK_JSON_MODE", {}, <<>>)

\* a catch (err) that classified the error and returned instead of falling through
catch_err_returns(r) ==
    IF r.kind = "throw" THEN Return(<<>>, "MODEL_REJECT", {}, r.msg) ELSE r

\* catch (err) of the structured attempt: it logs and falls through
catch_err(r) == r

\* lines 475-491: the body of the fallback's try block
fallbackAttempt(impl, resp) ==
    IF resp.throws THEN Throw(resp.msg)
    ELSE LET raw == resp.text
             candidate == extractFirstJsonObject(impl, raw)
         IN  IF candidate = <<>> THEN Return(<<>>, "JSON_MISSING", {}, raw)
             ELSE LET parsed == JSON_parse(candidate) IN
                  IF ~parsed.ok THEN Throw(SYNTAX_ERROR)
                  ELSE LET plan == Shaped(impl, parsed) IN
                       IF ~validatePlan(impl, plan)
                       THEN Return(<<>>, "SCHEMA_INVALID",
                                   validatePlan_errors(impl, plan), <<>>)
                       ELSE Return(<<plan.obj>>, "OK_FALLBACK", {}, <<>>)

\* a classification without the catch-all
classify_noCatchAll(msg) ==
    IF Matches(msg, {"quota", "rate"}) THEN "AZURE_QUOTA"
    ELSE IF Matches(msg, {"unauthorized", "401", "forbidden", "403"}) THEN "AZURE_AUTH"
    ELSE IF Matches(msg, {"model", "deployment"}) THEN "AZURE_DEPLOYMENT"
    ELSE "SCHEMA_INVALID"

\* lines 492-500: catch (err2) classifies by the message text
classify(msg) ==
    IF Matches(msg, {"quota", "rate"}) THEN "AZURE_QUOTA"
    ELSE IF Matches(msg, {"unauthorized", "401", "forbidden", "403"}) THEN "AZURE_AUTH"
    ELSE IF Matches(msg, {"model", "deployment"}) THEN "AZURE_DEPLOYMENT"
    ELSE "MODEL_REJECT"

\* a catch (err2) that let the exception go on
catch_err2_rethrows(r) == r

catch_err2(r) ==
    IF r.kind = "throw" THEN Return(<<>>, classify(r.msg), {}, r.msg) ELSE r

StructuredRequest == [kind |-> "structured", json_mode |-> TRUE]
RetryRequest == [kind |-> "retry", json_mode |-> TRUE]
FallbackRequest == [kind |-> "fallback", json_mode |-> FALSE]

Reply(text) == [throws |-> FALSE, text |-> text, msg |-> <<>>]
Failure(msg) == [throws |-> TRUE, text |-> <<>>, msg |-> msg]

\* what the provider may answer
Texts ==
    { <<"{", "C", "T", "}">>,                 \* a plan with a comment and a test
      <<"{", "c", "t", "}">>,                 \* {"comments":[],"tests":[]}
      <<"{", "}">>,                           \* {}
      <<"{", "C", "}">>,                      \* no tests key
      <<"{", "B", "t", "}">>,                 \* a comment without its fields
      <<"n">>,                                \* null
      <<>>,                                   \* empty content
      <<"x">>,                                \* prose only
      <<"{", "x", "}">>,                      \* braces around prose
      <<"x", "F", "{", "c", "t", "}", "F", "x">>,   \* a fenced object
      <<"F", "{", "C", "t", "}">>,            \* a fence never closed
      <<"{", "x", "}", "F", "{", "c", "t", "}">>,   \* the same after braced prose
      <<"{", "c", "t", "}", "x", "{", "}">> } \* two objects

ErrorMessages ==
    { <<"quota">>, <<"rate", "401">>, <<"unauthorized">>, <<"deployment">>,
      <<"timeout">> }

Responses == {Reply(t) : t \in Texts} \cup {Failure(m) : m \in ErrorMessages}

(***************************************************************************)
(* baseline.js                                                             *)
(***************************************************************************)

\* ".neuron/baseline.json", abbreviated ".n/b"
BASELINE_PATH == <<".", "n", "/", "b">>

\* fileSha: "" (the empty sequence) when the file cannot be read, else the
\* SHA-256 digest of its bytes: one value per content, never empty
fileSha(fs, absPath) ==
    IF absPath \in DOMAIN fs /\ fs[absPath].kind # "dir" THEN <<fs[absPath]>> ELSE <<>>

\* Number -> decimal string, as the template literal does
RECURSIVE NumStr(_)
NumStr(n) ==
    LET digit == <<"0", "1", "2", "3", "4", "5", "6", "7", "8", "9">> IN
    IF n < 10 THEN <<digit[n + 1]>>
    ELSE NumStr(n \div 10) \o <<digit[(n % 10) + 1]>>

\* a fingerprint that takes the severity in
fpForComment_withSeverity(c) ==
    c.path \o <<":">> \o NumStr(c.line) \o <<":">> \o c.title \o <<":", c.severity>>

fpForComment(c) == c.path \o <<":">> \o NumStr(c.line) \o <<":">> \o c.title

\* readBaseline: an absent or unparseable file, or one without an array
\* `suggestions`, is the empty store.  The only JSON documents are those
\* writeBaseline wrote; every other file here starts with the marker line.
readBaseline(workdir, fs) ==
    LET abs == path_join(workdir, BASELINE_PATH) IN
    IF abs \notin DOMAIN fs THEN <<>>
    ELSE IF fs[abs].kind = "json" THEN fs[abs].json
    ELSE <<>>

writeBaseline(workdir, fs, baseline) ==
    LET abs == path_join(workdir, BASELINE_PATH) IN
    [p \in DOMAIN fs \cup {abs} |-> IF p = abs THEN JsonFile(baseline) ELSE fs[p]]

\* baseline.suggestions.find(s => s.fp === fp): its index, 0 for undefined
FindFp(baseline, fp) ==
    LET idx == {i \in 1..Len(baseline) : ~IsNull(baseline[i]) /\ baseline[i].fp = fp} IN
    IF idx = {} THEN 0 ELSE CHOOSE i \in idx : \A j \in idx : i <= j

\* the callback of find reads s.fp: a TypeError when it comes to a null
\* element before an entry with the fingerprint
FindThrows(baseline, fp) ==
    \E i \in 1..Len(baseline) :
        /\ IsNull(baseline[i])
        /\ FindFp(baseline, fp) \in {0} \cup {k \in 1..Len(baseline) : k > i}

\* a shouldSkipComment that compares the hashes without asking that they are known
shouldSkipComment_emptyMatches(workdir, fs, baseline, comment) ==
    LET sha == fileSha(fs, path_join(workdir, comment.path))
        found == FindFp(baseline, fpForComment(comment))
    IN  found # 0 /\ baseline[found].file_sha = sha

\* whether the value shouldSkipComment returns is truthy
shouldSkipComment(workdir, fs, baseline, comment) ==
    LET fp == fpForComment(comment)
        sha == fileSha(fs, path_join(workdir, comment.path))
        found == FindFp(baseline, fp)
    IN  IF found = 0 THEN FALSE
        ELSE /\ baseline[found].file_sha # <<>>
             /\ sha # <<>>
             /\ baseline[found].file_sha = sha

\* an iteration that restarts first_seen_at when it refreshes a drifted entry
recordComment_restartsFirstSeen(workdir, fs, st, c, now) ==
    LET fp == fpForComment(c)
        sha == fileSha(fs, path_join(workdir, c.path))
        existing == FindFp(st.baseline, fp)
    IN  IF existing # 0
        THEN IF sha # <<>> /\ st.baseline[existing].file_sha # sha
             THEN [baseline |-> [st.baseline EXCEPT ![existing].file_sha = sha,
                                                    ![existing].first_seen_at = now,
                                                    ![existing].updated_at = now],
                   changed |-> TRUE]
             ELSE st
        ELSE [baseline |-> Append(st.baseline,
                              [fp |-> fp, path |-> c.path, file_sha |-> sha,
                               first_seen_at |-> now, updated_at |-> now]),
              changed |-> TRUE]

\* an iteration that refreshes a drifted entry without reporting the change
recordComment_silentUpdate(workdir, fs, st, c, now) ==
    LET fp == fpForComment(c)
        sha == fileSha(fs, path_join(workdir, c.path))
        existing == FindFp(st.baseline, fp)
    IN  IF existing # 0
        THEN IF sha # <<>> /\ st.baseline[existing].file_sha # sha
             THEN [baseline |-> [st.baseline EXCEPT ![existing].file_sha = sha,
                                                    ![existing].updated_at = now],
                   changed |-> st.changed]
             ELSE st
        ELSE [baseline |-> Append(st.baseline,
                              [fp |-> fp, path |-> c.path, file_sha |-> sha,
                               first_seen_at |-> now, updated_at |-> now]),
              changed |-> TRUE]

\* an iteration that pushes an entry without looking for an existing one
recordComment_alwaysAppends(workdir, fs, st, c, now) ==
    [baseline |-> Append(st.baseline,
                     [fp |-> fpForComment(c), path |-> c.path,
                      file_sha |-> fileSha(fs, path_join(workdir, c.path)),
                      first_seen_at |-> now, updated_at |-> now]),
     changed |-> TRUE]

\* an iteration that refreshes an entry even when the file cannot be read
recordComment_emptyOverwrites(workdir, fs, st, c, now) ==
    LET fp == fpForComment(c)
        sha == fileSha(fs, path_join(workdir, c.path))
        existing == FindFp(st.baseline, fp)
    IN  IF existing # 0
        THEN IF st.baseline[existing].file_sha # sha
             THEN [baseline |-> [st.baseline EXCEPT ![existing].file_sha = sha,
                                                    ![existing].updated_at = now],
                   changed |-> TRUE]
             ELSE st
        ELSE [baseline |-> Append(st.baseline,
                              [fp |-> fp, path |-> c.path, file_sha |-> sha,
                               first_seen_at |-> now, updated_at |-> now]),
              changed |-> TRUE]

\* one iteration of the loop of recordComments; new Date() is `now`
recordComment(workdir, fs, st, c, now) ==
    LET fp == fpForComment(c)
        sha == fileSha(fs, path_join(workdir, c.path))
        existing == FindFp(st.baseline, fp)
    IN  IF existing # 0
        THEN IF sha # <<>> /\ st.baseline[existing].file_sha # sha
             THEN [baseline |-> [st.baseline EXCEPT ![existing].file_sha = sha,
                                                    ![existing].updated_at = now],
                   changed |-> TRUE]
             ELSE st
        ELSE [baseline |-> Append(st.baseline,
                              [fp |-> fp, path |-> c.path, file_sha |-> sha,
                               first_seen_at |-> now, updated_at |-> now]),
              changed |-> TRUE]

RECURSIVE recordLoop(_, _, _, _, _)
recordLoop(workdir, fs, st, comments, now) ==
    IF comments = <<>> THEN st
    ELSE recordLoop(workdir, fs, recordComment(workdir, fs, st, Head(comments), now),
                    Tail(comments), now)

\* recordComments: the store after the call and the value it returns
recordComments(workdir, fs, baseline, postedComments, now) ==
    recordLoop(workdir, fs, [baseline |-> baseline, changed |-> FALSE],
               postedComments, now)

(***************************************************************************)
(* The webhook handler (src/index.js), for the deliveries of one branch    *)
(***************************************************************************)

\* the literal of .slice(0, 3) on the filtered comments
SLICE_END == 3

Min(a, b) == IF a < b THEN a ELSE b

\* Array.prototype.slice(0, n)
Slice(s, n) == SubSeq(s, 1, Min(n, Len(s)))

\* (plan.comments || []).filter(c => !shouldSkipComment(workdir, baseline, c))
RECURSIVE filterComments(_, _, _, _)
filterComments(workdir, fs, baseline, comments) ==
    IF comments = <<>> THEN <<>>
    ELSE (IF shouldSkipComment(workdir, fs, baseline, Head(comments))
          THEN <<>> ELSE <<Head(comments)>>)
         \o filterComments(workdir, fs, baseline, Tail(comments))

\* the filter stops with the TypeError of the first shouldSkipComment that throws
filterThrows(baseline, comments) ==
    \E i \in 1..Len(comments) : FindThrows(baseline, fpForComment(comments[i]))

\* line 184
filteredComments(workdir, fs, baseline, plan) ==
    Slice(filterComments(workdir, fs, baseline, plan.comments), SLICE_END)

\* "neuron.config.yml", abbreviated "c"
CONFIG_PATH == <<"c">>

\* the file "neuron:\n  max_inline_comments: 1", abbreviated "m1"
CONFIG_FILE == TextFile(<<"m", "1">>)

\* readNeuronConfig: {} without the file or without a neuron.max_inline_comments
\* in it
readNeuronConfig(workdir, fs) ==
    LET p == path_join(workdir, CONFIG_PATH) IN
    IF p \notin DOMAIN fs THEN EmptyObject
    ELSE IF readText(fs[p]) = <<"m", "1">> THEN [max_inline_comments |-> 1]
    ELSE EmptyObject

\* line 160: the default of requirements.max_comments
DEFAULT_MAX_COMMENTS == 3

\* cfg.max_inline_comments ?? 3
requirements_max_comments(cfg) ==
    IF "max_inline_comments" \in DOMAIN cfg THEN cfg.max_inline_comments
    ELSE DEFAULT_MAX_COMMENTS

\* a filtered plan that lost its tests
filteredPlan_noTests(plan, comments) == [comments |-> comments, tests |-> <<>>]

\* line 185: { ...plan, comments: filteredComments }
filteredPlan(plan, comments) == [plan EXCEPT !.comments = comments]

\* a list of files to commit that leaves the baseline out
filesToCommit_testsOnly(tests_written, baselineChanged) == tests_written

\* lines 199-200: the written tests, then the baseline file if it changed
filesToCommit(tests_written, baselineChanged) ==
    tests_written \o (IF baselineChanged THEN <<BASELINE_PATH>> ELSE <<>>)

\* git clone of the head branch into the workspace
Clone(workdir, files) ==
    LET abs(q) == path_join(workdir, q) IN
    [p \in {abs(q) : q \in DOMAIN files} |->
        files[CHOOSE q \in DOMAIN files : abs(q) = p]]

RunIds == {"r1", "r2"}

\* a handler that has not been invoked
IdleRun ==
    [pc |-> "idle", n |-> 0, fs |-> <<>>, cloned |-> <<>>, plan |-> <<>>,
     diagCode |-> "", baseline |-> <<>>, loaded |-> <<>>, filtered |-> <<>>,
     written |-> <<>>, changed |-> FALSE, queue |-> <<>>, committed |-> <<>>,
     sha |-> <<>>, posted |-> <<>>, postFailed |-> FALSE, obliged |-> {},
     loads |-> 0, flushes |-> 0, calls |-> <<>>, max_comments |-> 0,
     filteredPlan |-> <<>>, err |-> ""]

\* no delivery is handled
RunIdle ==
    /\ ALWAYS_COMMENT = TRUE
    /\ DEBUG_COMMENTS = TRUE
    /\ br_files = <<>>
    /\ run = [r \in RunIds |-> IdleRun]
    /\ deliveries = 0
    /\ pushes = 0
    /\ surfaced = {}
    /\ workdirs = {}

\* nothing is being applied
ApplyIdle ==
    /\ ap_fs = <<>>
    /\ ap_tests = <<>>
    /\ ap_round = 0
    /\ ap_written = <<>>
    /\ ap_targets = {}
    /\ ap_raised = <<>>

\* no store is being exercised
StoreIdle ==
    /\ st_fs = <<>>
    /\ st_store = <<>>
    /\ st_before = <<>>
    /\ st_comments = <<>>
    /\ st_changed = <<>>

\* no candidate is being validated
ValIdle ==
    /\ val_plan = EmptyObject
    /\ val_errors = <<>>

\* no plan is being acquired
AcqIdle ==
    /\ acq_impl = INDEX_JS
    /\ acq_pc = "start"
    /\ acq_requests = <<>>
    /\ acq_replies = <<>>
    /\ acq_plan = <<>>
    /\ acq_diag = NoDiag
    /\ acq_raised = FALSE

AcqInit ==
    /\ ValIdle
    /\ StoreIdle
    /\ ApplyIdle
    /\ RunIdle
    /\ acq_impl \in Impls
    /\ acq_pc = "start"
    /\ acq_requests = <<>>
    /\ acq_replies = <<>>
    /\ acq_plan = <<>>
    /\ acq_diag = NoDiag
    /\ acq_raised = FALSE

\* getLLMPlanWithFallback is called and sends the JSON-mode request
SendStructured ==
    /\ acq_pc = "start"
    /\ acq_requests' = <<StructuredRequest>>
    /\ acq_pc' = "wait_structured"
    /\ UNCHANGED <<acq_impl, acq_replies, acq_plan, acq_diag, acq_raised, ap_vars,
                   run_vars, val_vars, st_vars>>

\* the function returns r, or an exception leaves it
Finish(r) ==
    /\ acq_pc' = "done"
    /\ acq_plan' = r.plan
    /\ acq_diag' = r.diag
    /\ acq_raised' = (r.kind # "return")
    /\ UNCHANGED acq_requests

\* a failure that starts the function over with another JSON-mode request
FallThrough_startsOver ==
    /\ acq_requests' = Append(acq_requests, StructuredRequest)
    /\ acq_pc' = "wait_structured"
    /\ UNCHANGED <<acq_plan, acq_diag, acq_raised>>

\* the first try block ended in an exception: the second one sends its request
FallThrough ==
    /\ acq_requests' = Append(acq_requests, FallbackRequest)
    /\ acq_pc' = "wait_fallback"
    /\ UNCHANGED <<acq_plan, acq_diag, acq_raised>>

\* the JSON-mode request is answered
StructuredResponse(resp) ==
    /\ acq_pc = "wait_structured"
    /\ acq_replies' = Append(acq_replies, resp)
    /\ LET r == catch_err(structuredAttempt(acq_impl, resp)) IN
        CASE r.kind = "return" -> Finish(r)
          [] r.kind = "retry" ->
                /\ acq_requests' = Append(acq_requests, RetryRequest)
                /\ acq_pc' = "wait_retry"
                /\ UNCHANGED <<acq_plan, acq_diag, acq_raised>>
          [] OTHER -> FallThrough
    /\ UNCHANGED <<acq_impl, ap_vars, run_vars, val_vars, st_vars>>

\* part_001: the corrective request is answered
RetryResponse(resp) ==
    /\ acq_pc = "wait_retry"
    /\ acq_replies' = Append(acq_replies, resp)
    /\ LET r == catch_err(retryAttempt(resp)) IN
        IF r.kind = "return" THEN Finish(r) ELSE FallThrough
    /\ UNCHANGED <<acq_impl, ap_vars, run_vars, val_vars, st_vars>>

\* the request without JSON mode is answered
FallbackResponse(resp) ==
    /\ acq_pc = "wait_fallback"
    /\ acq_replies' = Append(acq_replies, resp)
    /\ Finish(catch_err2(fallbackAttempt(acq_impl, resp)))
    /\ UNCHANGED <<acq_impl, ap_vars, run_vars, val_vars, st_vars>>

AcqNext ==
    \/ SendStructured
    \/ \E resp \in Responses : StructuredResponse(resp)
    \/ \E resp \in Responses : RetryResponse(resp)
    \/ \E resp \in Responses : FallbackResponse(resp)

SpecAcq == AcqInit /\ [][AcqNext]_vars

\* The steps the server takes by itself are taken: it sends the first request
\* once called.  The answers are the provider's to give: the options of
\* getChatCompletions (lines 461-465, 477-480) carry no timeout and no abort
\* signal, and nothing else in the function ends a pending await, so no
\* fairness is assumed of the three response actions.
SpecAcqLive == SpecAcq /\ WF_vars(SendStructured)

(***************************************************************************)
(* Claims about plan acquisition (checked under SpecAcq)                   *)
(***************************************************************************)

\* the codes of the source; the text names them OK_STRUCTURED, AUTH_FAILURE,
\* QUOTA_EXCEEDED, DEPLOYMENT_MISCONFIGURED and PROVIDER_REJECTED
SuccessCodes == {"OK_JSON_MODE", "OK_FALLBACK"}
FailureCodes ==
    {"SCHEMA_INVALID", "JSON_MISSING", "AZURE_AUTH", "AZURE_QUOTA",
     "AZURE_DEPLOYMENT", "MODEL_REJECT"}

\* the i-th answer is a parse failure or a provider/transport error
FailedReply(i) ==
    acq_replies[i].throws \/ ~JSON_parse(acq_replies[i].text).ok

\* the i-th answer parsed, and what the server validates of it is invalid
InvalidReply(i) ==
    /\ ~acq_replies[i].throws
    /\ JSON_parse(acq_replies[i].text).ok
    /\ ~validatePlan(acq_impl, Shaped(acq_impl, JSON_parse(acq_replies[i].text)))

(* C6: plan acquisition never raises past its boundary: for every provider *)
(* behaviour it returns a plan that passes the validator with a success    *)
(* code, or a null plan with exactly one code of the failure taxonomy.     *)
AcquisitionReturnsPlanOrDiagnostic ==
    /\ ~acq_raised
    /\ acq_pc = "done" =>
          \/ /\ acq_plan # <<>>
             /\ validatePlan(acq_impl, AsValue(acq_plan[1]))
             /\ acq_diag.code \in SuccessCodes
          \/ /\ acq_plan = <<>>
             /\ acq_diag.code \in FailureCodes

\* both requests ended in an exception and a diagnostic came back
AcquisitionSurvivesTwoExceptions ==
    /\ acq_pc = "done"
    /\ Len(acq_replies) = 2
    /\ acq_replies[1].throws
    /\ acq_replies[2].throws
    /\ acq_plan = <<>>
    /\ acq_diag.code = "AZURE_AUTH"

(* C7: when the structured attempt's response parses but fails validation, *)
(* exactly one corrective follow-up request is issued and its response     *)
(* validated; if that one fails validation too the outcome is              *)
(* SCHEMA_INVALID with the validator's errors, and no further request is   *)
(* issued.                                                                 *)
OneCorrectiveRetry ==
    (Len(acq_replies) >= 1 /\ InvalidReply(1)) =>
        /\ Len(acq_requests) >= 2
        /\ acq_requests[2] = RetryRequest
        /\ \A i \in 3..Len(acq_requests) : acq_requests[i] # RetryRequest
        /\ (Len(acq_replies) >= 2 /\ InvalidReply(2)) =>
              /\ acq_pc = "done"
              /\ acq_plan = <<>>
              /\ acq_diag.code = "SCHEMA_INVALID"
              /\ acq_diag.errors # {}
              /\ Len(acq_requests) = 2

(* C8: on any parse failure or provider/transport error during the         *)
(* structured attempt a request without structural constraints is issued   *)
(* next, it is the last request, and the outcome is the one its answer     *)
(* alone determines (a good answer yields OK_FALLBACK).                    *)
FallbackDecidesAfterStructuredFailure ==
    \A i \in 1..Len(acq_replies) :
        (acq_requests[i].json_mode /\ FailedReply(i)) =>
            /\ Len(acq_requests) = i + 1
            /\ acq_requests[i + 1] = FallbackRequest
            /\ acq_pc \in {"wait_fallback", "done"}
            /\ acq_pc = "done" =>
                  LET r == catch_err2(fallbackAttempt(acq_impl, acq_replies[i + 1])) IN
                  /\ acq_plan = r.plan
                  /\ acq_diag = r.diag
                  /\ ( /\ ~acq_replies[i + 1].throws
                       /\ acq_replies[i + 1].text = <<"{", "c", "t", "}">> )
                     => acq_diag.code = "OK_FALLBACK"

\* the structured request threw and the fallback's answer became the plan
FallbackSucceedsAfterProviderError ==
    /\ acq_pc = "done"
    /\ acq_replies[1].throws
    /\ acq_requests = <<StructuredRequest, FallbackRequest>>
    /\ acq_diag.code = "OK_FALLBACK"
    /\ acq_plan = <<[comments |-> <<SAMPLE_COMMENT>>, tests |-> <<SAMPLE_TEST>>]>>

(* C9: in the unstructured fallback the outcome is OK_FALLBACK when a       *)
(* well-formed JSON object is extracted and validates, JSON_MISSING when    *)
(* the text holds no extractable well-formed JSON object, and               *)
(* SCHEMA_INVALID when an object is extracted but fails validation.         *)
FallbackOutcomeByExtraction ==
    ( /\ acq_pc = "done"
      /\ acq_requests[Len(acq_requests)] = FallbackRequest
      /\ ~acq_replies[Len(acq_replies)].throws ) =>
        LET candidate == extractFirstJsonObject(acq_impl,
                             acq_replies[Len(acq_replies)].text)
            parsed == JSON_parse(candidate)
            wellFormed == candidate # <<>> /\ parsed.ok
            valid == validatePlan(acq_impl, Shaped(acq_impl, parsed))
        IN  acq_diag.code = IF ~wellFormed THEN "JSON_MISSING"
                            ELSE IF valid THEN "OK_FALLBACK"
                            ELSE "SCHEMA_INVALID"

(* C10: a response that parses to an object missing comments and/or tests  *)
(* (in particular {}) is coerced to a plan with those keys as empty        *)
(* arrays, passes validation and yields a successful outcome rather than   *)
(* SCHEMA_INVALID.                                                         *)
MissingKeysAreCoerced ==
    ( /\ acq_pc = "done"
      /\ Len(acq_replies) = 1
      /\ ~acq_replies[1].throws
      /\ JSON_parse(acq_replies[1].text).ok
      /\ ~JSON_parse(acq_replies[1].text).null
      /\ DOMAIN JSON_parse(acq_replies[1].text).obj # {"comments", "tests"}
      /\ validatePlan(acq_impl, ensurePlanShape(JSON_parse(acq_replies[1].text))) ) =>
        /\ acq_diag.code = "OK_JSON_MODE"
        /\ acq_plan = <<ensurePlanShape(JSON_parse(acq_replies[1].text)).obj>>

\* the codes of the classification step (AUTH_FAILURE, QUOTA_EXCEEDED,
\* DEPLOYMENT_MISCONFIGURED and PROVIDER_REJECTED in the text)
ClassifiedCodes == {"AZURE_AUTH", "AZURE_QUOTA", "AZURE_DEPLOYMENT", "MODEL_REJECT"}

\* the patterns the classification step looks for
ClassifiedPatterns ==
    {"quota", "rate", "unauthorized", "401", "forbidden", "403", "model", "deployment"}

\* the exception the last try block ended in, if it did
LastException ==
    IF acq_pc = "done" /\ Len(acq_replies) = Len(acq_requests)
          /\ acq_requests[Len(acq_requests)].kind = "fallback"
    THEN LET r == fallbackAttempt(acq_impl, acq_replies[Len(acq_replies)]) IN
         IF r.kind = "throw" THEN <<r.msg>> ELSE <<>>
    ELSE <<>>

(* C27: an exception that reaches catch (err2) is given exactly one of the *)
(* four codes, and its message decides which: two exceptions with one      *)
(* message get one code, a message with none of the patterns gets          *)
(* MODEL_REJECT and only such a message does; the message is the detail.   *)
ExceptionsClassifiedByMessage ==
    LastException # <<>> =>
        LET msg == LastException[1] IN
        /\ ~acq_raised
        /\ acq_plan = <<>>
        /\ acq_diag.code \in ClassifiedCodes
        /\ acq_diag.code = classify(msg)
        /\ acq_diag.detail = msg
        /\ (acq_diag.code = "MODEL_REJECT") <=> ~Matches(msg, ClassifiedPatterns)

\* a transport error that names no pattern ended the fallback
UnmatchedMessageRejected ==
    /\ LastException = <<<<"timeout">>>>
    /\ acq_diag.code = "MODEL_REJECT"

\* what is inside the first fenced block of a text with a fence: up to the
\* closing fence, or to the end of the text when the fence is never closed
InsideFence(text) ==
    LET fence == IndexOf(text, "F", 1)
        fenceEnd == IndexOf(text, "F", fence + 1)
    IN  SubSeq(text, fence + 1, IF fenceEnd # 0 THEN fenceEnd - 1 ELSE Len(text))

(* C33: from a text with a fence, closed or not, whose block holds a        *)
(* brace-delimited span the extraction returns that span; from a text       *)
(* without a fence it returns the outermost brace-delimited span of the     *)
(* text, and the empty result when there is none.                           *)
ExtractionPrefersFence ==
    ( /\ acq_pc = "done"
      /\ acq_requests[Len(acq_requests)] = FallbackRequest
      /\ ~acq_replies[Len(acq_replies)].throws ) =>
        LET text == acq_replies[Len(acq_replies)].text
            got == extractFirstJsonObject(acq_impl, text)
        IN  IF IndexOf(text, "F", 1) = 0
            THEN got = BraceSpan(text)
            ELSE BraceSpan(InsideFence(text)) # <<>> => got = BraceSpan(InsideFence(text))

(* C25: plan acquisition reaches a terminal outcome whatever the provider  *)
(* does, a provider that never answers included (a request is bounded by   *)
(* a timeout that counts as a transport failure).                          *)
AcquisitionTerminates == <>(acq_pc = "done")

(***************************************************************************)
(* Specification of the validator: one candidate, validated once.          *)
(***************************************************************************)

\* a record without one of its fields
Without(rec, k) == [f \in DOMAIN rec \ {k} |-> rec[f]]

\* comment items: a valid one, and every way the schema names to spoil it
CommentItems ==
    {SAMPLE_COMMENT, [SAMPLE_COMMENT EXCEPT !.line = 0],
     [SAMPLE_COMMENT EXCEPT !.severity = "INFO"]}
    \cup {Without(SAMPLE_COMMENT, k) : k \in DOMAIN SAMPLE_COMMENT}

\* test items, likewise
TestItems ==
    {SAMPLE_TEST, [SAMPLE_TEST EXCEPT !.mode = "patch"],
     [SAMPLE_TEST EXCEPT !.content = <<>>]}
    \cup {Without(SAMPLE_TEST, k) : k \in DOMAIN SAMPLE_TEST}

\* lists of up to one more than the cap: valid items with at most one other
ListsOf(items, valid, cap) ==
    {[i \in 1..n |-> valid] : n \in 0..(cap + 1)}
    \cup {<<x>> : x \in items}
    \cup {<<valid, x>> : x \in items}

\* the objects a response may parse to
Candidates ==
    LET cs == ListsOf(CommentItems, SAMPLE_COMMENT, COMMENTS_MAX_ITEMS)
        ts == ListsOf(TestItems, SAMPLE_TEST, TESTS_MAX_ITEMS)
    IN  [comments : cs, tests : ts]
        \cup {[comments |-> c] : c \in cs}
        \cup {[tests |-> t] : t \in ts}
        \cup {EmptyObject}

ValInit ==
    /\ StoreIdle
    /\ ApplyIdle
    /\ AcqIdle
    /\ RunIdle
    /\ val_plan \in Candidates
    /\ val_errors = <<>>

\* validatePlan(plan), lines 314-316
Validate ==
    /\ val_errors = <<>>
    /\ val_errors' = <<validatePlan_errors(INDEX_JS, AsValue(val_plan))>>
    /\ UNCHANGED <<val_plan, ap_vars, acq_vars, run_vars, st_vars>>

ValNext == Validate

SpecVal == ValInit /\ [][ValNext]_vars

\* the candidate was accepted
Accepted == val_errors = <<{}>>

\* what the text asks of a comment and of a test artifact
GoodComment(c) ==
    /\ {"path", "line", "severity", "title", "body"} \subseteq DOMAIN c
    /\ c.severity \in {"LOW", "MEDIUM", "HIGH", "CRITICAL"}
    /\ c.line >= 1

GoodTest(t) ==
    /\ {"language", "framework", "path", "mode", "content"} \subseteq DOMAIN t
    /\ t.mode \in {"create", "append_or_create", "replace"}
    /\ t.content # <<>>

GoodPlan(o) ==
    /\ {"comments", "tests"} \subseteq DOMAIN o
    /\ Len(o.comments) <= 3
    /\ Len(o.tests) <= 2
    /\ \A i \in 1..Len(o.comments) : GoodComment(o.comments[i])
    /\ \A i \in 1..Len(o.tests) : GoodTest(o.tests[i])

(* C29: the validator accepts the object whose comments and tests are      *)
(* empty arrays, and rejects every candidate that misses a required field, *)
(* has a severity outside the four, a line below 1, a mode outside the     *)
(* three, an empty test content, or more than 3 comments or 2 tests.       *)
ValidatorAcceptsEmptyRejectsMalformed ==
    val_errors # <<>> =>
        /\ val_plan = [comments |-> <<>>, tests |-> <<>>] => Accepted
        /\ ~GoodPlan(val_plan) => ~Accepted

\* a comment on line 0 beside a valid one was rejected
LineZeroRejected ==
    /\ val_errors # <<>>
    /\ ~Accepted
    /\ val_plan = [comments |-> <<SAMPLE_COMMENT, [SAMPLE_COMMENT EXCEPT !.line = 0]>>,
                   tests |-> <<>>]

(***************************************************************************)
(* Specification of plan application: one workspace, one plan, applied     *)
(* repeatedly with nothing else touching the workspace in between.         *)
(***************************************************************************)

MaxRounds == 2

\* paths the provider may propose for a test artifact
TestPaths ==
    { <<"t">>,                                 \* inside the workspace
      <<".", ".", "/", "e">>,                  \* ../e
      <<"/", "e">>,                            \* absolute, outside
      <<".", ".", "/", "w", "x", "/", "t">> }  \* ../wx/t: a sibling of /w

TestContents == { <<"p">>, <<"q">> }

Artifacts ==
    [language : {"javascript", "java"}, framework : {"jest"}, path : TestPaths,
     mode : Modes, content : TestContents]

SeqsUpTo(S, n) == UNION { [1..k -> S] : k \in 0..n }

\* the workspaces a clone can produce: no test file yet, a hand-written one,
\* an empty one, one generated by an earlier run, or a directory where the
\* test would go
InitialWorkspaces ==
    { <<>>,
      [p \in {path_join(WORKDIR, <<"t">>)} |-> TextFile(<<>>)],
      [p \in {path_join(WORKDIR, <<"t">>)} |-> DirFile],
      [p \in {path_join(WORKDIR, <<"t">>)} |-> TextFile(<<"p">>)],
      [p \in {path_join(WORKDIR, <<"t">>)} |-> TextFile(withChecksum(<<"q">>))] }

ApplyInit ==
    /\ ValIdle
    /\ StoreIdle
    /\ AcqIdle
    /\ RunIdle
    /\ ap_fs \in InitialWorkspaces
    /\ ap_tests \in SeqsUpTo(Artifacts, TESTS_MAX_ITEMS)
    /\ ap_round = 0
    /\ ap_written = <<>>
    /\ ap_targets = {}
    /\ ap_raised = <<>>

\* await applyPlan(workdir, plan)
Apply ==
    /\ ap_round < MaxRounds
    /\ LET r == applyPlan(WORKDIR, ap_fs, ap_tests) IN
        /\ ap_fs' = r.fs
        /\ ap_written' = Append(ap_written, r.tests_written)
        /\ ap_targets' = ap_targets \cup r.targets
        /\ ap_raised' = Append(ap_raised, r.raised)
    /\ ap_round' = ap_round + 1
    /\ UNCHANGED <<ap_tests, acq_vars, run_vars, val_vars, st_vars>>

ApplyNext == Apply

SpecApply == ApplyInit /\ [][ApplyNext]_vars


(* C4: applying the same plan a second time to the workspace left by the    *)
(* first application, with nothing changed in between, writes no file and  *)
(* reports zero newly written paths, for every schema-valid plan and every *)
(* merge mode.                                                             *)
SecondApplicationWritesNothing ==
    ap_round >= 2 => ap_written[2] = <<>>

(* C5: whatever path an artifact proposes, the applier writes only to      *)
(* files inside the workspace root.                                        *)
WritesStayInsideRoot ==
    \A p \in ap_targets : InsideRoot(WORKDIR, p)


\* the target applyPlan resolves for an artifact
TargetOf(t) ==
    ensureSafePath(WORKDIR, t.path,
                   IF t.language = "java" THEN DEFAULT_JAVA_PATH ELSE DEFAULT_JS_PATH)

(* C23: an artifact that cannot be written (its target is a directory) does *)
(* not abort the application: applyPlan still returns its list, and every  *)
(* other artifact was attempted, so its target is a generated file.         *)
ArtifactFailureDoesNotAbort ==
    ap_round >= 1 =>
        /\ ~ap_raised[1]
        /\ \A i \in 1..Len(ap_tests) :
             LET target == TargetOf(ap_tests[i]) IN
             (target \in DOMAIN ap_fs => ap_fs[target].kind # "dir") =>
                 /\ target \in DOMAIN ap_fs
                 /\ alreadyHasChecksum(readText(ap_fs[target]))


\* the artifacts of the plan that no other artifact shares its target with
SoleArtifacts ==
    {i \in 1..Len(ap_tests) :
        \A j \in 1..Len(ap_tests) : TargetOf(ap_tests[j]) = TargetOf(ap_tests[i]) => j = i}

\* the artifact is skipped as unchanged in the workspace fs
SkippedIn(fs, t) ==
    /\ TargetOf(t) \in DOMAIN fs
    /\ alreadyHasChecksum(readText(fs[TargetOf(t)]))
    /\ includes(readText(fs[TargetOf(t)]), t.content)

\* the body the text gives an artifact in the workspace fs
StatedBody(fs, t) ==
    IF t.mode \in {"create", "replace"} THEN t.content
    ELSE IF TargetOf(t) \in DOMAIN fs
         THEN readText(fs[TargetOf(t)]) \o <<"\n", "\n">> \o t.content
         ELSE t.content

(* C31: an application that ends normally leaves, for an artifact not      *)
(* skipped, the file with the checksum line over this body: the proposed   *)
(* content for create and replace; for append_or_create the prior file's   *)
(* content, a blank line and the proposed content when a prior file        *)
(* exists, the proposed content alone when none does.                      *)
BodyFollowsMergeMode ==
    [][(ap_round' = ap_round + 1 /\ ~ap_raised'[ap_round']) =>
          \A i \in SoleArtifacts :
              ~SkippedIn(ap_fs, ap_tests[i]) =>
                  ap_fs'[TargetOf(ap_tests[i])]
                     = TextFile(withChecksum(StatedBody(ap_fs, ap_tests[i])))
      ]_vars


\* the members of a list
Elems(seq) == {seq[k] : k \in 1..Len(seq)}

(* C32: the list an application returns holds exactly the relative paths   *)
(* of the files it wrote: every path of the list names a generated file    *)
(* that an artifact targets, every file the application created or         *)
(* changed is in the list, and an artifact skipped as unchanged adds no    *)
(* path and leaves its file as it was.                                     *)
ReturnedListIsWhatWasWritten ==
    [][(ap_round' = ap_round + 1 /\ ~ap_raised'[ap_round']) =>
          LET w == ap_written'[ap_round'] IN
          /\ \A k \in 1..Len(w) :
               LET abs == path_resolve(WORKDIR, w[k]) IN
               /\ abs \in DOMAIN ap_fs'
               /\ abs \in ap_targets'
               /\ alreadyHasChecksum(readText(ap_fs'[abs]))
               /\ \E i \in 1..Len(ap_tests) : TargetOf(ap_tests[i]) = abs
          /\ \A p \in DOMAIN ap_fs' :
               (p \notin DOMAIN ap_fs \/ ap_fs'[p] # ap_fs[p]) =>
                   path_relative(WORKDIR, p) \in Elems(w)
          /\ \A i \in SoleArtifacts :
               SkippedIn(ap_fs, ap_tests[i]) =>
                   /\ path_relative(WORKDIR, TargetOf(ap_tests[i])) \notin Elems(w)
                   /\ ap_fs'[TargetOf(ap_tests[i])] = ap_fs[TargetOf(ap_tests[i])]
      ]_vars

\* of two artifacts the first was skipped as unchanged and the second written
OneSkippedOneWritten ==
    /\ ap_round = 1
    /\ ~ap_raised[1]
    /\ Len(ap_tests) = 2
    /\ ap_tests[1].path = <<"t">>
    /\ Len(ap_written[1]) = 1
    /\ ap_written[1][1] # <<"t">>


(***************************************************************************)
(* The deliveries of one pull request, handled one after the other.        *)
(* Every delivery is a signed pull_request event with a handled action and *)
(* the provider is configured, so that the handler reaches the clone.      *)
(* getLLMPlanWithFallback is taken by its result here; its steps are the   *)
(* acq_ actions above.                                                     *)
(***************************************************************************)

MaxRuns == 3
MaxPushes == 1

\* the branch when the pull request is opened: one source file
InitialBranch == [p \in {<<"a">>} |-> TextFile(<<"1">>)]

\* the other content of the source file
OtherText(f) == IF f.text = <<"1">> THEN TextFile(<<"2">>) ELSE TextFile(<<"1">>)

\* the same finding in other words, and a finding on a file the branch lacks
REWORDED_COMMENT == [SAMPLE_COMMENT EXCEPT !.severity = "LOW", !.body = <<"d">>]
ORPHAN_COMMENT == [SAMPLE_COMMENT EXCEPT !.path = <<"z">>]

\* a test artifact whose target is the baseline file
BASELINE_TEST == [SAMPLE_TEST EXCEPT !.path = BASELINE_PATH, !.mode = "replace"]

CommentLists ==
    {<<>>, <<SAMPLE_COMMENT>>, <<REWORDED_COMMENT>>, <<ORPHAN_COMMENT>>,
     <<SAMPLE_COMMENT, ORPHAN_COMMENT>>}

\* a second artifact for the path of the first
SECOND_TEST == [SAMPLE_TEST EXCEPT !.content = <<"q">>]

TestLists == {<<>>, <<SAMPLE_TEST>>, <<BASELINE_TEST>>}

\* plans that repeat themselves: one finding in two wordings, two artifacts
\* for one path
RepeatingPlans ==
    { [comments |-> <<SAMPLE_COMMENT, REWORDED_COMMENT>>, tests |-> <<>>],
      [comments |-> <<>>, tests |-> <<SAMPLE_TEST, SECOND_TEST>>] }

\* the plans the provider returns: every one passes validatePlan
PlanChoices ==
    {pl \in [comments : CommentLists, tests : TestLists] \cup RepeatingPlans :
        validatePlan(INDEX_JS, AsValue(pl))}

(***************************************************************************)
(* Specification of the baseline store: one workspace, one store, and a    *)
(* sequence of recordComments calls on it.                                 *)
(***************************************************************************)

MaxCalls == 2

\* findings whose title or path holds the delimiter of the fingerprint
COLON_TITLE_COMMENT == [SAMPLE_COMMENT EXCEPT !.title = <<"2", ":", "X">>]
COLON_PATH_COMMENT == [SAMPLE_COMMENT EXCEPT !.path = <<"a", ":", "1">>, !.line = 2]

StoreComments ==
    {SAMPLE_COMMENT, REWORDED_COMMENT, ORPHAN_COMMENT, COLON_TITLE_COMMENT,
     COLON_PATH_COMMENT}

\* the workspaces: the source file with either content, missing, or a
\* directory in its place; and beside a file named "a:1" of the same content
StoreWorkspaces ==
    { <<>>,
      [p \in {path_join(WORKDIR, <<"a">>)} |-> TextFile(<<"1">>)],
      [p \in {path_join(WORKDIR, <<"a">>)} |-> TextFile(<<"2">>)],
      [p \in {path_join(WORKDIR, <<"a">>)} |-> DirFile],
      [p \in {path_join(WORKDIR, <<"a">>), path_join(WORKDIR, <<"a", ":", "1">>)} |->
          TextFile(<<"1">>)] }

\* the stores a run may load: empty, or the sample finding recorded at
\* delivery 0 against the first content of its file
InitialStores ==
    { <<>>,
      <<[fp |-> fpForComment(SAMPLE_COMMENT), path |-> SAMPLE_COMMENT.path,
         file_sha |-> <<TextFile(<<"1">>)>>, first_seen_at |-> 0, updated_at |-> 0]>> }

StoreInit ==
    /\ ValIdle
    /\ ApplyIdle
    /\ AcqIdle
    /\ RunIdle
    /\ st_fs \in StoreWorkspaces
    /\ st_store \in InitialStores
    /\ st_before = <<>>
    /\ st_comments = <<>>
    /\ st_changed = <<>>

\* recordComments(workdir, baseline, postedComments)
RecordCall ==
    /\ Len(st_changed) < MaxCalls
    /\ \E cs \in SeqsUpTo(StoreComments, 2) :
          LET rc == recordComments(WORKDIR, st_fs, st_store, cs, Len(st_changed) + 1) IN
          /\ st_comments' = cs
          /\ st_before' = st_store
          /\ st_store' = rc.baseline
          /\ st_changed' = Append(st_changed, rc.changed)
    /\ UNCHANGED <<st_fs, ap_vars, acq_vars, run_vars, val_vars>>

StoreNext == RecordCall

SpecStore == StoreInit /\ [][StoreNext]_vars

\* what a fingerprint is to tell apart
KeyOf(c) == <<c.path, c.line, c.title>>

(* C36: comments that differ in path, line or title have different         *)
(* fingerprints, so that the entry shouldSkipComment finds for a comment   *)
(* is the entry of that comment's own path, never one recorded for         *)
(* another suggestion.                                                     *)
FingerprintIsInjective ==
    /\ \A i, j \in 1..Len(st_comments) :
         KeyOf(st_comments[i]) # KeyOf(st_comments[j]) =>
             fpForComment(st_comments[i]) # fpForComment(st_comments[j])
    /\ \A c \in StoreComments :
         shouldSkipComment(WORKDIR, st_fs, st_store, c) =>
             st_store[FindFp(st_store, fpForComment(c))].path = c.path

\* the version identifier the hosting service reports for a path: undefined
\* (the empty sequence) when the branch has no such file
BlobSha(files, rel) == IF rel \in DOMAIN files THEN <<files[rel]>> ELSE <<>>

\* findings that were posted with their baseline committed stay owed a
\* silence for as long as their file keeps the content it had
StillCurrent(owed, files) ==
    {o \in owed : o.path \in DOMAIN files /\ files[o.path] = o.file}

SetRun(r, rec) == run' = [run EXCEPT ![r] = rec]

Init ==
    /\ ValIdle
    /\ StoreIdle
    /\ ApplyIdle
    /\ AcqIdle
    /\ ALWAYS_COMMENT \in BOOLEAN
    /\ DEBUG_COMMENTS \in BOOLEAN
    /\ br_files = InitialBranch
    /\ run = [r \in RunIds |-> IdleRun]
    /\ deliveries = 0
    /\ pushes = 0
    /\ surfaced = {}
    /\ workdirs = {}

\* a developer pushes an edit of the source file while no delivery is handled
Push ==
    /\ pushes < MaxPushes
    /\ \A r \in RunIds : run[r].pc = "idle"
    /\ pushes' = pushes + 1
    /\ br_files' = [br_files EXCEPT ![<<"a">>] = OtherText(@)]
    /\ surfaced' = StillCurrent(surfaced, br_files')
    /\ UNCHANGED <<ALWAYS_COMMENT, DEBUG_COMMENTS, run, deliveries, workdirs,
                   ap_vars, acq_vars, val_vars, st_vars>>

\* a developer adds the configuration file, asking for one comment at most
PushConfig ==
    /\ pushes < MaxPushes
    /\ \A r \in RunIds : run[r].pc = "idle"
    /\ CONFIG_PATH \notin DOMAIN br_files
    /\ pushes' = pushes + 1
    /\ br_files' = [p \in DOMAIN br_files \cup {CONFIG_PATH} |->
                       IF p = CONFIG_PATH THEN CONFIG_FILE ELSE br_files[p]]
    /\ UNCHANGED <<ALWAYS_COMMENT, DEBUG_COMMENTS, run, deliveries, surfaced,
                   workdirs,
                   ap_vars, acq_vars, val_vars, st_vars>>

\* a developer pushes a baseline file edited by hand: one without an array
\* `suggestions`, or one whose array holds null.  What the runs owed to the
\* baseline they had committed is void then.
PushBaseline ==
    /\ pushes < MaxPushes
    /\ \A r \in RunIds : run[r].pc = "idle"
    /\ pushes' = pushes + 1
    /\ \E f \in {NO_ARRAY_FILE, JsonFile(<<NULL_ENTRY>>)} :
          br_files' = [p \in DOMAIN br_files \cup {BASELINE_PATH} |->
                          IF p = BASELINE_PATH THEN f ELSE br_files[p]]
    /\ surfaced' = {}
    /\ UNCHANGED <<ALWAYS_COMMENT, DEBUG_COMMENTS, run, deliveries, workdirs,
                   ap_vars, acq_vars, val_vars, st_vars>>

\* lines 73-165: the delivery is accepted, a temporary directory is made
\* (tmpDir, lines 259-262), the head branch is cloned into it and the request
\* to the provider is prepared
Webhook(r) ==
    /\ deliveries < MaxRuns
    /\ \A q \in RunIds : run[q].pc = "idle"
    /\ r = CHOOSE q \in RunIds : run[q].pc = "idle"
    /\ deliveries' = deliveries + 1
    /\ SetRun(r, [IdleRun EXCEPT !.pc = "llm", !.n = deliveries + 1,
                                 !.fs = Clone(WORKDIR, br_files),
                                 !.cloned = br_files,
                                 !.max_comments = requirements_max_comments(
                                     readNeuronConfig(WORKDIR, Clone(WORKDIR, br_files))),
                                 !.obliged = surfaced])
    /\ workdirs' = workdirs \cup {deliveries + 1}
    /\ UNCHANGED <<ALWAYS_COMMENT, DEBUG_COMMENTS, br_files, pushes, surfaced,
                   ap_vars, acq_vars, val_vars, st_vars>>

\* lines 167-171: getLLMPlanWithFallback returns a plan with a success code
LLMPlan(r) ==
    /\ run[r].pc = "llm"
    /\ \E pl \in PlanChoices, code \in SuccessCodes :
          SetRun(r, [run[r] EXCEPT !.pc = "filter", !.plan = pl, !.diagCode = code])
    /\ UNCHANGED <<ALWAYS_COMMENT, DEBUG_COMMENTS, br_files, deliveries, pushes,
                   surfaced, workdirs,
                   ap_vars, acq_vars, val_vars, st_vars>>

\* one request to the hosting service and how it was answered
Call(op, path, sha, result) == [op |-> op, path |-> path, sha |-> sha, result |-> result]

\* octokit.issues.createComment, accepted or not
CommentCall(ok) == Call("createComment", <<>>, <<>>, IF ok THEN "ok" ELSE "error")

\* a comment the handler sends to the pull request; createComment may fail,
\* which postIssueComment logs and swallows
Post(rec, kind, comments, written, code, ok) ==
    IF ok
    THEN Append(rec.posted, [kind |-> kind, comments |-> comments,
                             wrote |-> written, diagCode |-> code])
    ELSE rec.posted

\* lines 230-241: the catch block of the handler
Caught(rec, ok) ==
    [rec EXCEPT !.pc = "failed",
                !.postFailed = DEBUG_COMMENTS /\ ~ok,
                !.calls = IF DEBUG_COMMENTS THEN Append(@, CommentCall(ok)) ELSE @,
                !.posted = IF DEBUG_COMMENTS
                           THEN Post(rec, "trace", <<>>, <<>>, rec.diagCode, ok)
                           ELSE rec.posted]

\* a handler that goes on with an empty plan after a failed acquisition
LLMFails_goesOn(r) ==
    /\ run[r].pc = "llm"
    /\ \E code \in FailureCodes :
          SetRun(r, [run[r] EXCEPT !.pc = "filter", !.diagCode = code,
                        !.plan = [comments |-> <<>>, tests |-> <<>>]])
    /\ UNCHANGED <<ALWAYS_COMMENT, DEBUG_COMMENTS, br_files, deliveries, pushes,
                   surfaced, workdirs,
                   ap_vars, acq_vars, val_vars, st_vars>>

\* lines 167-179: getLLMPlanWithFallback returns null and a failure code; the
\* handler posts the summary with the code and answers
LLMFails(r) ==
    /\ run[r].pc = "llm"
    /\ \E code \in FailureCodes, ok \in BOOLEAN :
          SetRun(r, [run[r] EXCEPT !.pc = "done", !.diagCode = code,
                        !.postFailed = ~ok,
                        !.calls = Append(@, CommentCall(ok)),
                        !.posted = Post(run[r], "combined", <<>>, <<>>, code, ok)])
    /\ UNCHANGED <<ALWAYS_COMMENT, DEBUG_COMMENTS, br_files, deliveries, pushes,
                   surfaced, workdirs,
                   ap_vars, acq_vars, val_vars, st_vars>>

\* lines 181-186: read the baseline and filter the comments of the plan
\* a handler that reads the baseline while the provider has yet to answer
Filter_eager(r) ==
    /\ run[r].pc = "llm"
    /\ run[r].loads = 0
    /\ LET baseline == readBaseline(WORKDIR, run[r].fs) IN
       SetRun(r, [run[r] EXCEPT !.baseline = baseline, !.loaded = baseline,
                                !.loads = @ + 1])
    /\ UNCHANGED <<ALWAYS_COMMENT, DEBUG_COMMENTS, br_files, deliveries, pushes,
                   surfaced, workdirs, ap_vars, acq_vars, val_vars, st_vars>>

Filter(r) ==
    /\ run[r].pc = "filter"
    /\ LET baseline == readBaseline(WORKDIR, run[r].fs)
           kept == filteredComments(WORKDIR, run[r].fs, baseline, run[r].plan)
           read == [run[r] EXCEPT !.baseline = baseline, !.loaded = baseline,
                                  !.loads = @ + 1]
       IN  IF filterThrows(baseline, run[r].plan.comments)
           THEN \E ok \in BOOLEAN :
                   SetRun(r, Caught([read EXCEPT !.err = "TypeError"], ok))
           ELSE SetRun(r, [read EXCEPT !.pc = "apply",
                              !.filtered = kept,
                              !.filteredPlan = filteredPlan(run[r].plan, kept)])
    /\ UNCHANGED <<ALWAYS_COMMENT, DEBUG_COMMENTS, br_files, deliveries, pushes,
                   surfaced, workdirs,
                   ap_vars, acq_vars, val_vars, st_vars>>

\* lines 188-190: applyPlan writes the test artifacts into the workspace
ApplyTests(r) ==
    /\ run[r].pc = "apply"
    /\ LET applied == applyPlan(WORKDIR, run[r].fs, run[r].filteredPlan.tests) IN
       IF applied.raised
       THEN \E ok \in BOOLEAN :
               SetRun(r, Caught([run[r] EXCEPT !.err = "EISDIR", !.fs = applied.fs], ok))
       ELSE SetRun(r, [run[r] EXCEPT !.pc = "record", !.fs = applied.fs,
                          !.written = applied.tests_written])
    /\ UNCHANGED <<ALWAYS_COMMENT, DEBUG_COMMENTS, br_files, deliveries, pushes,
                   surfaced, workdirs,
                   ap_vars, acq_vars, val_vars, st_vars>>

\* lines 192-200: record the kept comments, write the baseline if it changed,
\* and collect the files to commit
Record(r) ==
    /\ run[r].pc = "record"
    /\ LET rc == recordComments(WORKDIR, run[r].fs, run[r].baseline,
                                run[r].filtered, run[r].n)
           files == filesToCommit(run[r].written, rc.changed)
       IN  SetRun(r, [run[r] EXCEPT
                 !.pc = IF files = <<>> THEN "post" ELSE "get",
                 !.baseline = rc.baseline,
                 !.changed = rc.changed,
                 !.flushes = IF rc.changed THEN @ + 1 ELSE @,
                 !.fs = IF rc.changed
                        THEN writeBaseline(WORKDIR, run[r].fs, rc.baseline)
                        ELSE run[r].fs,
                 !.queue = files])
    /\ UNCHANGED <<ALWAYS_COMMENT, DEBUG_COMMENTS, br_files, deliveries, pushes,
                   surfaced, workdirs,
                   ap_vars, acq_vars, val_vars, st_vars>>

\* an upsert that forgets the version it read
shaOf_none(data) == <<>>

\* line 578: the sha of the file getContent found; undefined (the empty
\* sequence) after a 404
shaOf(data) == data

\* lines 573-581: upsertFileViaAPI asks for the version of the next file
GetContent(r) ==
    /\ run[r].pc = "get"
    /\ LET rel == Head(run[r].queue)
           data == BlobSha(br_files, rel)
       IN  SetRun(r, [run[r] EXCEPT !.pc = "put",
                         !.sha = shaOf(data),
                         !.calls = Append(@, Call("getContent", rel, data,
                                           IF data = <<>> THEN "404" ELSE "ok"))])
    /\ UNCHANGED <<ALWAYS_COMMENT, DEBUG_COMMENTS, br_files, deliveries, pushes,
                   surfaced, workdirs,
                   ap_vars, acq_vars, val_vars, st_vars>>

\* lines 204-213 and 582-590: the write of the file read from the workspace,
\* conditioned on the version read; the service refuses a stale version
PutContent(r) ==
    /\ run[r].pc = "put"
    /\ LET rel == Head(run[r].queue)
           content == run[r].fs[path_join(WORKDIR, rel)]
       IN  IF run[r].sha = BlobSha(br_files, rel)
           THEN /\ br_files' = [p \in DOMAIN br_files \cup {rel} |->
                                   IF p = rel THEN content ELSE br_files[p]]
                /\ SetRun(r, [run[r] EXCEPT
                      !.pc = IF Tail(run[r].queue) = <<>> THEN "post" ELSE "get",
                      !.queue = Tail(@),
                      !.committed = Append(@, rel),
                      !.calls = Append(@, Call("createOrUpdateFileContents", rel,
                                               run[r].sha, "ok"))])
           ELSE /\ br_files' = br_files
                /\ \E ok \in BOOLEAN :
                      SetRun(r, Caught([run[r] EXCEPT !.err = "HttpError", !.calls =
                                 Append(@, Call("createOrUpdateFileContents", rel,
                                                run[r].sha, "409"))], ok))
    /\ surfaced' = StillCurrent(surfaced, br_files')
    /\ UNCHANGED <<ALWAYS_COMMENT, DEBUG_COMMENTS, deliveries, pushes,
                   workdirs,
                   ap_vars, acq_vars, val_vars, st_vars>>

\* the hosting service answers a request of upsertFileViaAPI with an error
\* (other than 404 for getContent); the handler's catch block takes over
HostingError(r) ==
    /\ run[r].pc \in {"get", "put"}
    /\ LET rel == Head(run[r].queue)
           failed == IF run[r].pc = "get"
                     THEN Call("getContent", rel, <<>>, "error")
                     ELSE Call("createOrUpdateFileContents", rel, run[r].sha, "error")
       IN  \E ok \in BOOLEAN :
              SetRun(r, Caught([run[r] EXCEPT !.err = "HttpError",
                                              !.calls = Append(@, failed)], ok))
    /\ UNCHANGED <<ALWAYS_COMMENT, DEBUG_COMMENTS, br_files, deliveries, pushes,
                   surfaced, workdirs,
                   ap_vars, acq_vars, val_vars, st_vars>>

\* the kept comments whose file is readable and whose entry this run committed
NewlySurfaced(rec) ==
    {[fp |-> fpForComment(rec.filtered[i]), path |-> rec.filtered[i].path,
      file |-> br_files[rec.filtered[i].path]] :
        i \in {j \in 1..Len(rec.filtered) :
                 /\ rec.filtered[j].path \in DOMAIN br_files
                 /\ fileSha(rec.fs, path_join(WORKDIR, rec.filtered[j].path)) # <<>>
                 /\ \E k \in 1..Len(rec.committed) : rec.committed[k] = BASELINE_PATH}}

\* lines 220-227: the combined comment, when ALWAYS_COMMENT is set
PostCombined(r) ==
    /\ run[r].pc = "post"
    /\ \E ok \in BOOLEAN :
          /\ SetRun(r, [run[r] EXCEPT !.pc = "done",
                           !.postFailed = ALWAYS_COMMENT /\ ~ok,
                           !.calls = IF ALWAYS_COMMENT
                                     THEN Append(@, CommentCall(ok)) ELSE @,
                           !.posted = IF ALWAYS_COMMENT
                                      THEN Post(run[r], "combined",
                                                run[r].filteredPlan.comments,
                                                run[r].written, run[r].diagCode, ok)
                                      ELSE run[r].posted])
          /\ surfaced' = IF ALWAYS_COMMENT /\ ok
                         THEN surfaced \cup NewlySurfaced(run[r])
                         ELSE surfaced
    /\ UNCHANGED <<ALWAYS_COMMENT, DEBUG_COMMENTS, br_files, deliveries, pushes,
                   workdirs,
                   ap_vars, acq_vars, val_vars, st_vars>>

\* lines 178, 229 and 240: the handler answers the delivery and ends
Respond(r) ==
    /\ run[r].pc \in {"done", "failed"}
    /\ SetRun(r, IdleRun)
    /\ UNCHANGED <<ALWAYS_COMMENT, DEBUG_COMMENTS, br_files, deliveries, pushes,
                   surfaced, workdirs,
                   ap_vars, acq_vars, val_vars, st_vars>>

Next ==
    \/ Push
    \/ PushConfig
    \/ PushBaseline
    \/ \E r \in RunIds :
          \/ Webhook(r)
          \/ LLMPlan(r)
          \/ LLMFails(r)
          \/ Filter(r)
          \/ ApplyTests(r)
          \/ Record(r)
          \/ GetContent(r)
          \/ PutContent(r)
          \/ HostingError(r)
          \/ PostCombined(r)
          \/ Respond(r)

Spec == Init /\ [][Next]_vars

(***************************************************************************)
(* Claims about the baseline across deliveries                             *)
(***************************************************************************)

\* the fingerprints of the comments in the combined comments that the
\* hosting service accepted from a handler
PostedFps(rec) ==
    UNION {{fpForComment(rec.posted[i].comments[j]) :
               j \in 1..Len(rec.posted[i].comments)} :
           i \in {k \in 1..Len(rec.posted) : rec.posted[k].kind = "combined"}}

\* C1: a finding that an earlier delivery posted, with its baseline
\* committed, is not posted again by a later delivery while its (readable)
\* file has the content it had then.
NoRepeatForUnchangedFile ==
    \A r \in RunIds : \A o \in run[r].obliged : o.fp \notin PostedFps(run[r])

KnownComments == {SAMPLE_COMMENT, REWORDED_COMMENT, ORPHAN_COMMENT}

\* the store holds an entry with the comment's fingerprint whose hash is the
\* current hash of the comment's file, and both hashes are known
SameKnownHash(fs, baseline, c) ==
    \E i \in 1..Len(baseline) :
        /\ ~IsNull(baseline[i])
        /\ baseline[i].fp = fpForComment(c)
        /\ baseline[i].file_sha = fileSha(fs, path_join(WORKDIR, c.path))
        /\ baseline[i].file_sha # <<>>
        /\ fileSha(fs, path_join(WORKDIR, c.path)) # <<>>

\* C2: shouldSkipComment gives a true result exactly when the store holds an
\* entry with the comment's fingerprint whose stored hash equals the current
\* hash of the comment's file and both hashes are non-empty.
SkipIffSameKnownHash ==
    \A r \in RunIds : \A c \in KnownComments :
        shouldSkipComment(WORKDIR, run[r].fs, run[r].baseline, c)
            <=> SameKnownHash(run[r].fs, run[r].baseline, c)

\* a plan was filtered against a store that holds both findings: the one on
\* the unchanged file is skipped, the one whose hash is unknown is kept
SkipsKnownKeepsUnknown ==
    \E r \in RunIds :
        /\ run[r].pc = "apply"
        /\ run[r].plan.comments = <<SAMPLE_COMMENT, ORPHAN_COMMENT>>
        /\ FindFp(run[r].loaded, fpForComment(SAMPLE_COMMENT)) # 0
        /\ FindFp(run[r].loaded, fpForComment(ORPHAN_COMMENT)) # 0
        /\ run[r].filtered = <<ORPHAN_COMMENT>>

\* C3: when the file of a baselined comment was edited since (stored hash h1,
\* current hash h2, both known and different), the delivery that completes
\* posts the comment again and leaves one entry for the fingerprint, the
\* same one, with hash h2.
EditedFileResurfaces ==
    \A r \in RunIds :
        (run[r].pc = "done" /\ run[r].diagCode \in SuccessCodes /\ ~run[r].postFailed)
        => \A i \in 1..Len(run[r].plan.comments) :
              LET c == run[r].plan.comments[i]
                  k == FindFp(run[r].loaded, fpForComment(c))
                  h2 == fileSha(Clone(WORKDIR, run[r].cloned),
                                path_join(WORKDIR, c.path))
              IN  (k # 0 /\ h2 # <<>> /\ run[r].loaded[k].file_sha \notin {<<>>, h2})
                  => /\ fpForComment(c) \in PostedFps(run[r])
                     /\ Cardinality({j \in 1..Len(run[r].baseline) :
                                       run[r].baseline[j].fp = fpForComment(c)}) = 1
                     /\ run[r].baseline[k].file_sha = h2

(***************************************************************************)
(* Claims about what a delivery does on the pull request                   *)
(***************************************************************************)

\* C11: a run that ends with findings or written tests to report, or in an
\* acquisition failure, has posted exactly one comment (every hosting call
\* having succeeded).
OneCommentPerRun ==
    \A r \in RunIds :
        ( /\ run[r].pc = "done"
          /\ ~run[r].postFailed
          /\ \/ run[r].diagCode \in FailureCodes
             \/ run[r].filtered # <<>>
             \/ run[r].plan.tests # <<>> )
        => Len(run[r].posted) = 1

\* C12: after an acquisition failure the run reports the diagnostic code in
\* its one comment and does nothing else: no test artifact is written, the
\* baseline is neither read nor changed, and no commit request is made.
AcquisitionFailureStopsRun ==
    \A r \in RunIds :
        run[r].diagCode \in FailureCodes =>
            /\ run[r].pc = "done"
            /\ run[r].loads = 0
            /\ run[r].flushes = 0
            /\ run[r].baseline = <<>>
            /\ run[r].written = <<>>
            /\ run[r].fs = Clone(WORKDIR, run[r].cloned)
            /\ run[r].committed = <<>>
            /\ Len(run[r].calls) = 1
            /\ run[r].calls[1].op = "createComment"
            /\ ~run[r].postFailed =>
                  run[r].posted = <<[kind |-> "combined", comments |-> <<>>,
                                     wrote |-> <<>>, diagCode |-> run[r].diagCode]>>

\* an acquisition failed on a branch that has a baseline, and was reported
FailureReportedBesideBaseline ==
    \E r \in RunIds :
        /\ run[r].pc = "done"
        /\ run[r].diagCode = "JSON_MISSING"
        /\ path_join(WORKDIR, BASELINE_PATH) \in DOMAIN run[r].fs
        /\ Len(run[r].posted) = 1
        /\ run[r].posted[1].diagCode = "JSON_MISSING"

\* C13: the filtered comments are the first max_comments comments of the plan
\* that shouldSkipComment does not skip, in the plan's order, whatever cap
\* the repository configures.
FilterHonoursConfiguredCap ==
    \A r \in RunIds :
        ( /\ run[r].diagCode \in SuccessCodes
          /\ run[r].pc \notin {"idle", "llm", "filter"}
          /\ run[r].err # "TypeError" )
        => run[r].filtered =
              Slice(filterComments(WORKDIR, Clone(WORKDIR, run[r].cloned),
                                   run[r].loaded, run[r].plan.comments),
                    run[r].max_comments)

\* C14: the filtered plan carries the tests of the acquired plan, the same
\* elements in the same order, whatever the baseline holds; they are what
\* applyPlan is given.
FilterKeepsTests ==
    \A r \in RunIds :
        ( /\ run[r].diagCode \in SuccessCodes
          /\ run[r].pc \notin {"idle", "llm", "filter"}
          /\ run[r].err # "TypeError" )
        => /\ run[r].filteredPlan.tests = run[r].plan.tests
           /\ run[r].pc \notin {"apply"} =>
                 run[r].written =
                    applyPlan(WORKDIR, Clone(WORKDIR, run[r].cloned),
                              run[r].plan.tests).tests_written

\* a plan whose only comment the baseline suppressed kept its test
TestKeptWhileCommentSkipped ==
    \E r \in RunIds :
        /\ run[r].pc = "record"
        /\ run[r].loaded # <<>>
        /\ run[r].plan.comments = <<SAMPLE_COMMENT>>
        /\ run[r].filteredPlan.comments = <<>>
        /\ run[r].filteredPlan.tests = <<SAMPLE_TEST>>
        /\ run[r].written # <<>>

(***************************************************************************)
(* Deliveries handled concurrently: the handler is an async function that  *)
(* takes no lock, so a delivery is accepted while another is in progress.  *)
(***************************************************************************)

\* the process runs with its default configuration; the branch is the one
\* the pull request was opened with
ConcInit ==
    /\ ValIdle
    /\ StoreIdle
    /\ ApplyIdle
    /\ AcqIdle
    /\ ALWAYS_COMMENT = TRUE
    /\ DEBUG_COMMENTS = TRUE
    /\ br_files = InitialBranch
    /\ run = [r \in RunIds |-> IdleRun]
    /\ deliveries = 0
    /\ pushes = 0
    /\ surfaced = {}
    /\ workdirs = {}

\* lines 73-165 for one delivery: a workspace of its own, cloned from the branch
StartRun(r) ==
    /\ deliveries' = deliveries + 1
    /\ SetRun(r, [IdleRun EXCEPT !.pc = "llm", !.n = deliveries + 1,
                                 !.fs = Clone(WORKDIR, br_files),
                                 !.cloned = br_files,
                                 !.max_comments = requirements_max_comments(
                                     readNeuronConfig(WORKDIR, Clone(WORKDIR, br_files))),
                                 !.obliged = surfaced])
    /\ workdirs' = workdirs \cup {deliveries + 1}
    /\ UNCHANGED <<ALWAYS_COMMENT, DEBUG_COMMENTS, br_files, pushes, surfaced,
                   ap_vars, acq_vars, val_vars, st_vars>>

\* a handler that waits until no other delivery is in progress
Deliver_exclusive(r) ==
    /\ deliveries < Cardinality(RunIds)
    /\ \A q \in RunIds : run[q].pc = "idle"
    /\ StartRun(r)

\* express calls the handler for every delivery, whatever else is in
\* progress; each of the deliveries RunIds names arrives once
Deliver(r) ==
    /\ run[r].pc = "idle"
    /\ deliveries < Cardinality(RunIds)
    /\ StartRun(r)

ConcNext ==
    \E r \in RunIds :
        \/ Deliver(r)
        \/ LLMPlan(r)
        \/ LLMFails(r)
        \/ Filter(r)
        \/ ApplyTests(r)
        \/ Record(r)
        \/ GetContent(r)
        \/ PutContent(r)
        \/ HostingError(r)
        \/ PostCombined(r)
        \/ Respond(r)

SpecConc == ConcInit /\ [][ConcNext]_vars

\* C15: runs on one branch are not mutually excluded: a delivery is accepted
\* while another run is in progress, and two runs that loaded the same
\* baseline and clone and whose plans begin with the same comment, which that
\* baseline does not suppress, both keep it and, with the combined comment
\* on and accepted, both post it.
ConcurrentRunsDoublePost ==
    /\ \A r \in RunIds :
          (run[r].pc = "idle" /\ deliveries < Cardinality(RunIds)) => ENABLED Deliver(r)
    /\ \A r1, r2 \in RunIds :
          ( /\ r1 # r2
            /\ run[r1].pc = "done" /\ run[r2].pc = "done"
            /\ run[r1].diagCode \in SuccessCodes /\ run[r2].diagCode \in SuccessCodes
            /\ run[r1].loaded = run[r2].loaded
            /\ run[r1].cloned = run[r2].cloned
            /\ run[r1].plan.comments # <<>> /\ run[r2].plan.comments # <<>>
            /\ run[r1].plan.comments[1] = run[r2].plan.comments[1]
            /\ ~shouldSkipComment(WORKDIR, Clone(WORKDIR, run[r1].cloned),
                                  run[r1].loaded, run[r1].plan.comments[1])
            /\ ALWAYS_COMMENT /\ ~run[r1].postFailed /\ ~run[r2].postFailed )
          => /\ fpForComment(run[r1].plan.comments[1]) \in PostedFps(run[r1])
             /\ fpForComment(run[r1].plan.comments[1]) \in PostedFps(run[r2])

\* two runs in progress at once loaded the empty baseline and each posted
\* the same finding
DoublePost ==
    /\ run["r1"].pc = "done" /\ run["r2"].pc = "done"
    /\ run["r1"].loaded = <<>> /\ run["r2"].loaded = <<>>
    /\ run["r1"].committed # <<>> /\ run["r2"].committed # <<>>
    /\ fpForComment(SAMPLE_COMMENT) \in PostedFps(run["r1"])
    /\ fpForComment(SAMPLE_COMMENT) \in PostedFps(run["r2"])

\* the paths of the write requests the hosting service accepted, in order
AcceptedWrites(rec) ==
    LET puts == SelectSeq(rec.calls,
                    LAMBDA c : c.op = "createOrUpdateFileContents" /\ c.result = "ok")
    IN  [i \in 1..Len(puts) |-> puts[i].path]

\* C16: a run that got through its commits committed the paths applyPlan
\* reported as written and then the baseline file exactly when
\* recordComments reported a change; it committed nothing else, and made no
\* commit request at all when there was neither.
CommittedIsWrittenPlusBaseline ==
    \A r \in RunIds :
        (run[r].diagCode \in SuccessCodes /\ run[r].pc \in {"post", "done"})
        => /\ AcceptedWrites(run[r]) =
                 run[r].written \o (IF run[r].changed THEN <<BASELINE_PATH>> ELSE <<>>)
           /\ run[r].committed = AcceptedWrites(run[r])
           /\ (run[r].written = <<>> /\ ~run[r].changed) =>
                 \A i \in 1..Len(run[r].calls) : run[r].calls[i].op = "createComment"

\* a run committed a written test and then the changed baseline
CommittedTestAndBaseline ==
    \E r \in RunIds :
        /\ run[r].pc = "done"
        /\ run[r].written = <<SAMPLE_TEST.path>>
        /\ run[r].changed
        /\ run[r].committed = <<SAMPLE_TEST.path, BASELINE_PATH>>
        /\ BASELINE_PATH \in DOMAIN br_files

\* C17: a run that got past recordComments loaded the baseline once and
\* flushed it at most once, only when recordComments reported a change; when
\* it reported none, the run wrote no baseline file: the file in the
\* workspace is the cloned one, or still absent.
BaselineFlushedOnlyWhenChanged ==
    \A r \in RunIds :
        (run[r].diagCode \in SuccessCodes /\ run[r].pc \in {"get", "put", "post", "done"})
        => LET abs == path_join(WORKDIR, BASELINE_PATH) IN
           /\ run[r].loads = 1
           /\ run[r].flushes <= 1
           /\ run[r].flushes = 1 => run[r].changed
           /\ ~run[r].changed =>
                 /\ (abs \in DOMAIN run[r].fs) = (BASELINE_PATH \in DOMAIN run[r].cloned)
                 /\ abs \in DOMAIN run[r].fs => run[r].fs[abs] = run[r].cloned[BASELINE_PATH]

CorruptOrMissing(files) ==
    \/ BASELINE_PATH \notin DOMAIN files
    \/ files[BASELINE_PATH].kind # "json"
    \/ \E i \in 1..Len(files[BASELINE_PATH].json) : IsNull(files[BASELINE_PATH].json[i])

\* C19: whatever the baseline file holds, readBaseline returns and the run
\* goes on as with an empty store: nothing raises in the filter or in
\* recordComments, and no comment of the plan is suppressed.
CorruptBaselineNeverAborts ==
    \A r \in RunIds :
        ( /\ run[r].diagCode \in SuccessCodes
          /\ run[r].pc \notin {"idle", "llm", "filter"}
          /\ CorruptOrMissing(run[r].cloned) )
        => /\ run[r].err # "TypeError"
           /\ run[r].filtered = Slice(run[r].plan.comments, SLICE_END)

\* a run that has come past recordComments
Recorded(r) ==
    /\ run[r].diagCode \in SuccessCodes
    /\ run[r].pc \in {"get", "put", "post", "done", "failed"}
    /\ run[r].err # "TypeError"

\* the entry of the store before the call that comment c meets has a hash
\* other than the known current hash of the file
Drifted(r, c) ==
    LET old == FindFp(run[r].loaded, fpForComment(c))
        sha == fileSha(run[r].fs, path_join(WORKDIR, c.path))
    IN  old # 0 /\ sha # <<>> /\ run[r].loaded[old].file_sha # sha

\* C20: recordComments appends an entry (fingerprint, path, current hash, both
\* dates now) for every comment whose fingerprint the store did not hold,
\* rewrites the hash and updated_at of an entry whose stored hash differs from
\* the known current hash, leaves every other entry as it was, and returns
\* true exactly when it created or updated an entry.
RecordCreatesUpdatesReports ==
    \A r \in RunIds :
        Recorded(r) =>
            LET before == run[r].loaded
                after == run[r].baseline
                now == run[r].n
            IN  /\ \A i \in 1..Len(run[r].filtered) :
                     LET c == run[r].filtered[i]
                         fp == fpForComment(c)
                         sha == fileSha(run[r].fs, path_join(WORKDIR, c.path))
                         old == FindFp(before, fp)
                         new == FindFp(after, fp)
                     IN  /\ new # 0
                         /\ old = 0 =>
                              /\ new > Len(before)
                              /\ after[new] = [fp |-> fp, path |-> c.path,
                                               file_sha |-> sha,
                                               first_seen_at |-> now,
                                               updated_at |-> now]
                         /\ Drifted(r, c) =>
                              /\ new = old
                              /\ after[old] = [before[old] EXCEPT
                                                  !.file_sha = sha,
                                                  !.updated_at = now]
                         /\ (old # 0 /\ ~Drifted(r, c)) =>
                              /\ new = old
                              /\ after[old] = before[old]
                /\ Len(after) >= Len(before)
                /\ \A k \in 1..Len(before) :
                     after[k] # before[k] =>
                         \E i \in 1..Len(run[r].filtered) :
                             /\ Drifted(r, run[r].filtered[i])
                             /\ FindFp(before, fpForComment(run[r].filtered[i])) = k
                /\ run[r].changed <=>
                     \E i \in 1..Len(run[r].filtered) :
                         \/ FindFp(before, fpForComment(run[r].filtered[i])) = 0
                         \/ Drifted(r, run[r].filtered[i])

\* a run whose only change to the store was the refresh of a drifted entry
DriftedEntryRefreshed ==
    \E r \in RunIds :
        /\ Recorded(r)
        /\ run[r].changed
        /\ Len(run[r].baseline) = Len(run[r].loaded)
        /\ \E i \in 1..Len(run[r].filtered) : Drifted(r, run[r].filtered[i])

\* C21: the store a run works on never loses an entry: after readBaseline,
\* the filter, recordComments and writeBaseline every element the store was
\* loaded with is still at its place with its fingerprint, path and
\* first_seen_at, so the fingerprints held only grow; the file flushed holds
\* exactly that store.
EntriesNeverDeleted ==
    \A r \in RunIds :
        (run[r].loads = 1 /\ run[r].pc # "filter") =>
            LET before == run[r].loaded
                after == run[r].baseline
                abs == path_join(WORKDIR, BASELINE_PATH)
            IN  /\ Len(after) >= Len(before)
                /\ \A k \in 1..Len(before) :
                     IF IsNull(before[k]) THEN after[k] = before[k]
                     ELSE /\ ~IsNull(after[k])
                          /\ after[k].fp = before[k].fp
                          /\ after[k].path = before[k].path
                          /\ after[k].first_seen_at = before[k].first_seen_at
                /\ run[r].flushes = 1 =>
                     /\ readBaseline(WORKDIR, run[r].fs) = after
                     /\ run[r].fs[abs] = JsonFile(after)

\* a run refreshed an entry first seen by an earlier run and flushed the store
OldEntryKeptThroughRefresh ==
    \E r \in RunIds :
        /\ run[r].flushes = 1
        /\ run[r].loaded # <<>>
        /\ \E k \in 1..Len(run[r].loaded) :
             /\ ~IsNull(run[r].loaded[k])
             /\ run[r].baseline[k].file_sha # run[r].loaded[k].file_sha
             /\ run[r].baseline[k].first_seen_at < run[r].n

\* the wordings a provider may give one finding
Rewordings(c) ==
    {[c EXCEPT !.severity = s, !.body = b] : s \in Severities, b \in {<<"b">>, <<"d">>}}

\* C22: a comment and any comment with the same path, line and title but
\* another body or severity have one fingerprint and get one decision from
\* shouldSkipComment; so a comment that only rewords a baselined finding on
\* an unchanged file is not among the filtered comments (seen as the filter
\* has returned).
FingerprintIgnoresBodyAndSeverity ==
    \A r \in RunIds :
        run[r].pc = "apply"
        => \A i \in 1..Len(run[r].plan.comments) :
             LET c == run[r].plan.comments[i]
                 fs == Clone(WORKDIR, run[r].cloned)
             IN  \A d \in Rewordings(c) :
                     /\ fpForComment(d) = fpForComment(c)
                     /\ shouldSkipComment(WORKDIR, fs, run[r].loaded, d)
                          = shouldSkipComment(WORKDIR, fs, run[r].loaded, c)
                     /\ shouldSkipComment(WORKDIR, fs, run[r].loaded, d) =>
                          \A j \in 1..Len(run[r].filtered) : run[r].filtered[j] # c

\* the plan reworded a finding an earlier run had recorded under its first
\* wording, the file unchanged since: it was suppressed
RewordedFindingSuppressed ==
    \E r \in RunIds :
        /\ run[r].pc = "apply"
        /\ run[r].plan.comments = <<REWORDED_COMMENT>>
        /\ run[r].filtered = <<>>
        /\ \E k \in 1..Len(run[r].loaded) :
             /\ ~IsNull(run[r].loaded[k])
             /\ run[r].loaded[k].fp = fpForComment(SAMPLE_COMMENT)
             /\ run[r].loaded[k].first_seen_at < run[r].n

\* C24: the findings of one posted comment have pairwise different
\* fingerprints, also when the plan repeats a finding, and are no more than
\* the run's configured cap.
PostedFindingsDistinctAndCapped ==
    \A r \in RunIds : \A k \in 1..Len(run[r].posted) :
        run[r].posted[k].kind = "combined" =>
            LET cs == run[r].posted[k].comments IN
            /\ \A i, j \in 1..Len(cs) :
                 fpForComment(cs[i]) = fpForComment(cs[j]) => i = j
            /\ run[r].diagCode \in SuccessCodes => Len(cs) <= run[r].max_comments

\* the deliveries whose run is in progress
InProgress == {run[r].n : r \in {q \in RunIds : run[q].pc # "idle"}}

\* C26: a run removes the directory it made before it ends, however it ends:
\* the directories on the disk are those of the runs in progress.
WorkspaceRemovedAtRunEnd == workdirs \subseteq InProgress

\* the positions of the calls of one operation on one path in a run's log
CallsOf(rec, op, path) ==
    {i \in 1..Len(rec.calls) : rec.calls[i].op = op /\ rec.calls[i].path = path}

\* C28: a run makes each hosting call at most once: for a path, one version
\* read and one write (no path is written twice), and one comment post; a
\* call that failed is not made again.
EachHostingCallOnce ==
    \A r \in RunIds :
        /\ \A i \in 1..Len(run[r].calls) :
             LET c == run[r].calls[i] IN
             /\ Cardinality(CallsOf(run[r], c.op, c.path)) = 1
             /\ c.result \in {"error", "409"} => i = Len(run[r].calls)
                   \/ run[r].calls[i + 1].op = "createComment"
        /\ Cardinality({i \in 1..Len(run[r].calls) :
                           run[r].calls[i].op = "createComment"}) <= 1

\* the commit calls (version reads and writes) in a run's log
CommitCalls(rec) ==
    {i \in 1..Len(rec.calls) : rec.calls[i].op \in {"getContent", "createOrUpdateFileContents"}}

CommentCalls(rec) ==
    {i \in 1..Len(rec.calls) : rec.calls[i].op = "createComment"}

\* C30: the effects of a run come in this order: while the provider has not
\* answered, the baseline is not read and the workspace is not written;
\* once a commit call has been made the workspace is written no more (the
\* artifacts and the baseline flush came before); every commit call comes
\* before the comment, and once the comment has been posted no hosting call
\* is made.
EffectsInOrder ==
    [][\A r \in RunIds :
          LET a == run[r]
              b == run'[r]
          IN  (a.pc # "idle" /\ b.pc # "idle") =>
                /\ a.pc = "llm" =>
                     /\ b.loads = 0
                     /\ b.fs = a.fs
                     /\ CommitCalls(b) = {}
                /\ (b.loads # a.loads \/ b.fs # a.fs) =>
                     /\ a.diagCode \in SuccessCodes
                     /\ a.calls = <<>>
                     /\ CommitCalls(b) = {}
                /\ CommitCalls(b) # CommitCalls(a) =>
                     /\ b.fs = a.fs
                     /\ b.flushes = a.flushes
                     /\ b.written = a.written
                     /\ CommentCalls(a) = {}
                /\ \A i \in CommitCalls(b), j \in CommentCalls(b) : i < j
                /\ CommentCalls(a) # {} => b.calls = a.calls
      ]_vars

\* a run wrote a test and the baseline, committed both and posted its comment
RunWentThroughEveryStage ==
    \E r \in RunIds :
        /\ run[r].pc = "done"
        /\ run[r].diagCode \in SuccessCodes
        /\ run[r].written # <<>>
        /\ run[r].flushes = 1
        /\ Len(run[r].calls) = 5
        /\ run[r].calls[5].op = "createComment"
        /\ Cardinality(CommitCalls(run[r])) = 4

\* the entries of the baseline committed to the branch
BranchBaseline ==
    IF BASELINE_PATH \in DOMAIN br_files /\ br_files[BASELINE_PATH].kind = "json"
    THEN {br_files[BASELINE_PATH].json[k] : k \in 1..Len(br_files[BASELINE_PATH].json)}
    ELSE {}

\* C34: an entry of the committed baseline stands for a comment that was
\* delivered: when a run has ended, every entry it created on the branch
\* (first seen at this delivery) has its fingerprint among the findings of
\* the comment the run posted.
RecordedMeansDelivered ==
    \A r \in RunIds :
        run[r].pc = "done" =>
            \A e \in BranchBaseline :
                (~IsNull(e) /\ e.first_seen_at = run[r].n) => e.fp \in PostedFps(run[r])

\* the fingerprints a run recorded itself, and committed with its baseline
CommittedFps(rec) ==
    IF \E k \in 1..Len(rec.committed) : rec.committed[k] = BASELINE_PATH
    THEN {rec.baseline[k].fp :
             k \in {j \in 1..Len(rec.baseline) :
                       ~IsNull(rec.baseline[j]) /\ rec.baseline[j].first_seen_at = rec.n}}
    ELSE {}

\* C35: when two runs on the branch have both ended with their writes
\* accepted, the baseline on the branch holds the entries each of them
\* recorded and committed (a later writer that would discard the other's
\* entries has its write rejected, and does not end so).
OverlappingRunsKeepBothEntries ==
    (\A r \in RunIds : run[r].pc = "done") =>
        \A r \in RunIds :
            CommittedFps(run[r]) \subseteq {e.fp : e \in {x \in BranchBaseline : ~IsNull(x)}}

\* C37: a run commits all the files of its commit set or none: a run that
\* failed has committed nothing, and a run that has committed something and
\* is past its commit step has nothing left to commit.
CommitAllOrNothing ==
    \A r \in RunIds :
        /\ run[r].pc = "failed" => run[r].committed = <<>>
        /\ (run[r].pc \in {"post", "done"} /\ run[r].committed # <<>>) =>
              run[r].queue = <<>>

\* C38: a store whose fingerprints are pairwise distinct keeps them pairwise
\* distinct through every record call, also when one call carries several
\* comments of the same fingerprint.
StoreFingerprintsDistinct ==
    \A i, j \in 1..Len(st_store) :
        i # j => st_store[i].fp # st_store[j].fp

\* a call with two comments of one fingerprint on an empty store left one entry
TwoCommentsOneEntry ==
    /\ st_comments = <<SAMPLE_COMMENT, REWORDED_COMMENT>>
    /\ st_before = <<>>
    /\ Len(st_store) = 1
    /\ st_store[1].fp = fpForComment(REWORDED_COMMENT)

\* the file of the comment cannot be read in the workspace of the call
Unreadable(c) == fileSha(st_fs, path_join(WORKDIR, c.path)) = <<>>

\* C40: a record call never replaces a stored non-empty hash by an empty
\* one: a comment whose file cannot be read and whose fingerprint has an
\* entry leaves that entry as it was, and a call made only of such comments
\* returns false.
UnreadableFileKeepsEntry ==
    st_changed # <<>> =>
        /\ \A k \in 1..Len(st_before) :
              st_before[k].file_sha # <<>> => st_store[k].file_sha # <<>>
        /\ \A i \in 1..Len(st_comments) :
              LET k == FindFp(st_before, fpForComment(st_comments[i])) IN
              (/\ Unreadable(st_comments[i])
               /\ k # 0
               /\ \A j \in 1..Len(st_comments) :
                     fpForComment(st_comments[j]) = fpForComment(st_comments[i])
                        => Unreadable(st_comments[j]))
                 => st_store[k] = st_before[k]
        /\ (\A i \in 1..Len(st_comments) :
               /\ Unreadable(st_comments[i])
               /\ FindFp(st_before, fpForComment(st_comments[i])) # 0)
              => /\ st_changed[Len(st_changed)] = FALSE
                 /\ st_store = st_before

\* a recorded finding whose file is gone was presented again
UnreadableRecordedAgain ==
    /\ st_comments = <<SAMPLE_COMMENT>>
    /\ Unreadable(SAMPLE_COMMENT)
    /\ FindFp(st_before, fpForComment(SAMPLE_COMMENT)) # 0
    /\ st_before[1].file_sha # <<>>
    /\ st_store = st_before
    /\ st_changed[Len(st_changed)] = FALSE

\* the place of a request in the function's text
StepOf(req) ==
    CASE req.kind = "structured" -> 1
      [] req.kind = "retry" -> 2
      [] req.kind = "fallback" -> 3

\* C39: one acquisition issues at most one structured request, at most one
\* corrective retry and at most one fallback request, each later in the
\* function than the one before it, whatever the provider answers.
RequestsBounded ==
    /\ Len(acq_requests) <= 3
    /\ \A i, j \in 1..Len(acq_requests) :
          i < j => StepOf(acq_requests[i]) < StepOf(acq_requests[j])
    /\ \A i \in 1..Len(acq_requests) :
          acq_requests[i] = RetryRequest => acq_impl = PART_001

\* an acquisition that needed all three requests has ended
AllThreeRequestsIssued ==
    /\ acq_pc = "done"
    /\ acq_requests = <<StructuredRequest, RetryRequest, FallbackRequest>>
    /\ Len(acq_replies) = 3

====
